---- MODULE Spec2Model ----
(***************************************************************************)
(* Model of the agit TypeScript SDK (ts-sdk/src/client.ts): the in-memory  *)
(* repository PureTsRepository as it is driven through AgitClient.         *)
(*                                                                         *)
(* JavaScript runs one task at a time.  None of the repository's async     *)
(* methods awaits before it has finished changing the repository, so the   *)
(* body of a call is one atomic step; what can interleave is the order in  *)
(* which callers issue calls and the moment each caller gets its result.   *)
(* Spec is one caller that awaits every call; SpecRace is two callers,     *)
(* each of which may issue a call while the other's is outstanding.        *)
(*                                                                         *)
(* JavaScript values are records with one field naming their type:         *)
(*   [undef |-> TRUE]  [null |-> TRUE]  [num |-> n]  [str |-> text]        *)
(*   [obj |-> <<key, value>> pairs in insertion order]  [arr |-> <<..>>]   *)
(* A text is [raw |-> s] (not JSON) or [json |-> v], the JSON text that    *)
(* JSON.stringify emits for v.  Branch names, commit hashes and targets    *)
(* are TLA+ strings; NULL stands for JavaScript's null in string fields.   *)
(***************************************************************************)
EXTENDS Integers, Sequences, FiniteSets, TLC

VARIABLES
    commits,        \* Map<string, Commit & {state}>, in insertion order
    branches,       \* InMemoryBranches: branch name -> commit hash
    headRef,        \* declared, never written
    detachedHash,   \* commit hash when HEAD is detached, else NULL
    currentBranch,  \* _currentBranch: branch name when attached, else NULL
    now,            \* the millisecond clock read by new Date()
    pend,           \* per caller: its latest call and what the call settled with
    calls,          \* the number of calls issued so far
    auditLog,       \* the audit entries of the native core; the fallback writes none
    client,         \* what AgitClient.open was called with and what it gave
    console,        \* the lines written with console.warn
    did             \* AgitFidesClient.did: the agent's DID once init has run, else NULL

vars == <<commits, branches, headRef, detachedHash, currentBranch, now, pend, calls, auditLog,
          client, console, did>>

(***************************************************************************)
(* Bounds                                                                  *)
(***************************************************************************)
MaxCalls == 4
MaxClock == 1

NULL == "null"            \* JavaScript null in a string-valued field
UNDEFINED == "undefined"  \* an omitted string argument
Callers == {"a", "b"}

(***************************************************************************)
(* JavaScript values and JSON                                              *)
(***************************************************************************)
Undef == [undef |-> TRUE]
Null == [null |-> TRUE]
Num(n) == [num |-> n]
Str(t) == [str |-> t]
Obj(pairs) == [obj |-> pairs]
Arr(items) == [arr |-> items]

IsUndef(v) == "undef" \in DOMAIN v
IsNull(v) == "null" \in DOMAIN v
IsStr(v) == "str" \in DOMAIN v
IsObj(v) == "obj" \in DOMAIN v
IsArr(v) == "arr" \in DOMAIN v

\* a ?? b
Nullish(a, b) == IF IsUndef(a) \/ IsNull(a) THEN b ELSE a

\* What JSON.parse(JSON.stringify(v)) gives back for a defined v: object
\* members whose value is undefined are dropped, undefined array items
\* become null, everything else is kept, in order.
RECURSIVE JsonNormal(_)
JsonNormal(v) ==
    IF IsObj(v)
    THEN LET kept == SelectSeq(v.obj, LAMBDA p : ~IsUndef(p[2]))
         IN  Obj([i \in 1..Len(kept) |-> <<kept[i][1], JsonNormal(kept[i][2])>>])
    ELSE IF IsArr(v)
    THEN Arr([i \in 1..Len(v.arr) |->
                 IF IsUndef(v.arr[i]) THEN Null ELSE JsonNormal(v.arr[i])])
    ELSE v

\* JSON.stringify(v): undefined for undefined, else the string holding the
\* JSON text of v.
JsonStringify(v) == IF IsUndef(v) THEN Undef ELSE Str([json |-> JsonNormal(v)])

\* parseJsonValue: a non-string is returned as it is; a string is parsed,
\* and returned unchanged when JSON.parse throws.
parseJsonValue(value) ==
    IF ~IsStr(value) THEN value
    ELSE IF "json" \in DOMAIN value.str THEN value.str.json
    ELSE value

\* normalizeState
normalizeState(state) ==
    [state EXCEPT !.memory = parseJsonValue(state.memory),
                  !.world_state = parseJsonValue(state.world_state),
                  !.metadata = parseJsonValue(state.metadata)]

(***************************************************************************)
(* Inputs                                                                  *)
(***************************************************************************)
ActionType == [ToolCall |-> "tool_call", LlmResponse |-> "llm_response",
               SystemEvent |-> "system_event", Rollback |-> "rollback",
               Merge |-> "merge", Checkpoint |-> "checkpoint"]
MergeStrategy == [Ours |-> "ours", Theirs |-> "theirs", ThreeWay |-> "three_way"]

Strategies == {MergeStrategy.Ours, MergeStrategy.Theirs, MergeStrategy.ThreeWay}

V1 == Obj(<<<<"v", Num(1)>>>>)
V2 == Obj(<<<<"v", Num(2)>>>>)

\* CommitOptions values handed to AgitClient.commit
CommitInputs ==
    { [memory |-> V1, world_state |-> Undef, message |-> <<"one">>,
       action_type |-> UNDEFINED, cost |-> Undef, metadata |-> Undef],
      [memory |-> Str([json |-> Num(1)]), world_state |-> Null, message |-> <<"two">>,
       action_type |-> ActionType.ToolCall, cost |-> Num(1),
       metadata |-> Obj(<<<<"run", Str([raw |-> "abc"])>>>>)] }

HashNames == <<"h1", "h2", "h3", "h4", "h5", "h6", "h7", "h8">>
Garbage == "deadbeef"

StoredHashes == {commits[i].hash : i \in 1..Len(commits)}

\* Names a caller may give a branch: two ordinary names, and the text of
\* the first stored commit's hash.
NameInputs ==
    {"main", "feature"} \cup (IF Len(commits) > 0 THEN {commits[1].hash} ELSE {})

\* Strings a caller may pass where a branch name or a hash is expected.
RefInputs == NameInputs \cup StoredHashes \cup {Garbage}

(***************************************************************************)
(* PureTsRepository                                                        *)
(***************************************************************************)
Has(hash) == hash \in StoredHashes

\* map.get(hash) on a commit map cs, for a hash stored in it
GetIn(cs, hash) == cs[CHOOSE i \in 1..Len(cs) : cs[i].hash = hash]

\* this.commits.get(hash), for a stored hash
Get(hash) == GetIn(commits, hash)

\* sha256Sync over the JSON text of a commit's identity (tree hash of the
\* state, parents, message, action type, timestamp): equal inputs give the
\* equal hash, different inputs are taken to give different hashes.  The
\* k-th distinct identity hashed is named HashNames[k].
Identity(c) == <<c.state, c.parent_hashes, c.message, c.action_type, c.timestamp>>

sha256Sync(c) ==
    IF \E i \in 1..Len(commits) : Identity(commits[i]) = Identity(c)
    THEN commits[CHOOSE i \in 1..Len(commits) : Identity(commits[i]) = Identity(c)].hash
    ELSE HashNames[Len(commits) + 1]

\* Map.set(hash, commit)
MapSet(c) ==
    IF Has(c.hash)
    THEN [i \in 1..Len(commits) |-> IF commits[i].hash = c.hash THEN c ELSE commits[i]]
    ELSE Append(commits, c)

\* this.branches[name] ?? NULL
Ref(name) == IF name \in DOMAIN branches THEN branches[name] ELSE NULL

\* Variant: HEAD resolves only through an attached branch.
resolveHead_attachedOnly ==
    IF currentBranch # NULL THEN Ref(currentBranch) ELSE NULL

resolveHead ==
    IF currentBranch # NULL THEN Ref(currentBranch) ELSE detachedHash

\* Variant: the commit is built without looking at HEAD.
NewCommit_orphan(memory_json, world_state_json, message, action_type, cost, metadata) ==
    LET body == [parent_hashes |-> <<>>,
                 message |-> message,
                 author |-> "default",
                 timestamp |-> now,
                 action_type |-> action_type,
                 state |-> [memory |-> parseJsonValue(memory_json),
                            world_state |-> Nullish(parseJsonValue(world_state_json), Obj(<<>>)),
                            timestamp |-> now,
                            cost |-> Nullish(cost, Num(0)),
                            metadata |-> parseJsonValue(metadata)]]
    IN  [hash |-> sha256Sync(body)] @@ body

\* The commit object PureTsRepository.commit builds from its arguments.
NewCommit(memory_json, world_state_json, message, action_type, cost, metadata) ==
    LET parentHash == resolveHead
        body == [parent_hashes |-> IF parentHash # NULL THEN <<parentHash>> ELSE <<>>,
                 message |-> message,
                 author |-> "default",
                 timestamp |-> now,
                 action_type |-> action_type,
                 state |-> [memory |-> parseJsonValue(memory_json),
                            world_state |-> Nullish(parseJsonValue(world_state_json), Obj(<<>>)),
                            timestamp |-> now,
                            cost |-> Nullish(cost, Num(0)),
                            metadata |-> parseJsonValue(metadata)]]
    IN  [hash |-> sha256Sync(body)] @@ body

\* Variant: the commit is stored but no reference is moved to it.
Store_noAdvance(c) ==
    /\ commits' = MapSet(c)
    /\ UNCHANGED <<branches, detachedHash>>

\* The writes of PureTsRepository.commit, given the commit it built.
Store(c) ==
    /\ commits' = MapSet(c)
    /\ IF currentBranch # NULL
       THEN /\ branches' = [n \in DOMAIN branches \cup {currentBranch} |->
                               IF n = currentBranch THEN c.hash ELSE branches[n]]
            /\ UNCHANGED detachedHash
       ELSE /\ detachedHash' = c.hash
            /\ UNCHANGED branches

\* What caller c's call settled with: err is the reason of the rejection
\* (NULL when the promise resolved), hash and state the value resolved with.
Settle(c, op, err, hash, state) ==
    /\ calls < MaxCalls
    /\ calls' = calls + 1
    /\ pend' = [pend EXCEPT ![c] = [op |-> op, err |-> err, hash |-> hash, state |-> state]]
    /\ UNCHANGED <<auditLog, client, console, did>>

Idle == [op |-> "idle", err |-> NULL, hash |-> NULL, state |-> Undef]

\* The client of the tests: opened with forcePureTs, which gives the
\* in-memory repository whether or not the native module is there.
TestClient ==
    [nativeModule |-> FALSE, process |-> TRUE, env |-> Undef, forcePureTs |-> "true",
     repo |-> "PureTsRepository", err |-> NULL]

\* Variant: the repository starts with a detached, empty HEAD.
Init_detached ==
    /\ commits = <<>>
    /\ branches = [n \in {} |-> NULL]
    /\ headRef = NULL
    /\ detachedHash = NULL
    /\ currentBranch = NULL
    /\ now = 0
    /\ pend = [c \in Callers |-> Idle]
    /\ calls = 0
    /\ auditLog = <<>>
    /\ console = <<>>
    /\ did = NULL
    /\ client = TestClient

Init ==
    /\ commits = <<>>
    /\ branches = [n \in {} |-> NULL]
    /\ headRef = NULL
    /\ detachedHash = NULL
    /\ currentBranch = "main"
    /\ now = 0
    /\ pend = [c \in Callers |-> Idle]
    /\ calls = 0
    /\ auditLog = <<>>
    /\ console = <<>>
    /\ did = NULL
    /\ client = TestClient

\* The arguments AgitClient.commit hands to the repository.
ClientCommitArgs(o) ==
    [memory_json |-> JsonStringify(o.memory),
     world_state_json |-> JsonStringify(IF IsUndef(o.world_state) THEN Obj(<<>>)
                                        ELSE o.world_state),
     message |-> o.message,
     action_type |-> IF o.action_type = UNDEFINED THEN ActionType.Checkpoint
                     ELSE o.action_type,
     cost |-> o.cost,
     metadata |-> IF IsUndef(o.metadata) THEN Undef ELSE JsonStringify(o.metadata)]

\* AgitClient.commit -> PureTsRepository.commit
Commit(c, o) ==
    /\ LET a == ClientCommitArgs(o)
           new == NewCommit(a.memory_json, a.world_state_json, a.message,
                            a.action_type, a.cost, a.metadata)
       IN  /\ Store(new)
           /\ Settle(c, "commit", NULL, new.hash, Undef)
    /\ UNCHANGED <<headRef, currentBranch, now>>

\* AgitClient.branch -> PureTsRepository.branch
Branch(c, name, from) ==
    /\ LET sourceHash == IF from # UNDEFINED
                         THEN (IF from \in DOMAIN branches THEN branches[from] ELSE from)
                         ELSE resolveHead
       IN  IF sourceHash = NULL
           THEN /\ Settle(c, "branch", "No commits yet", NULL, Undef)
                /\ UNCHANGED branches
           ELSE /\ branches' = [n \in DOMAIN branches \cup {name} |->
                                   IF n = name THEN sourceHash ELSE branches[n]]
                /\ Settle(c, "branch", NULL, NULL, Undef)
    /\ UNCHANGED <<commits, headRef, detachedHash, currentBranch, now>>

\* Variant: the target is tried as a commit hash before it is tried as a
\* branch name.
Checkout_hashFirst(c, target) ==
    /\ IF Has(target)
       THEN /\ currentBranch' = NULL
            /\ detachedHash' = target
            /\ Settle(c, "checkout", NULL, NULL, normalizeState(Get(target).state))
       ELSE IF target \in DOMAIN branches
       THEN /\ currentBranch' = target
            /\ detachedHash' = NULL
            /\ IF Has(branches[target])
               THEN Settle(c, "checkout", NULL, NULL, normalizeState(Get(branches[target]).state))
               ELSE Settle(c, "checkout", "Object not found", NULL, Undef)
       ELSE /\ Settle(c, "checkout", "Ref not found", NULL, Undef)
            /\ UNCHANGED <<currentBranch, detachedHash>>
    /\ UNCHANGED <<commits, branches, headRef, now>>

\* Variant: checking a commit out by its hash moves the current branch to
\* it instead of detaching HEAD.
Checkout_moveRef(c, target) ==
    /\ IF target \in DOMAIN branches
       THEN /\ currentBranch' = target
            /\ detachedHash' = NULL
            /\ UNCHANGED branches
            /\ IF Has(branches[target])
               THEN Settle(c, "checkout", NULL, NULL, normalizeState(Get(branches[target]).state))
               ELSE Settle(c, "checkout", "Object not found", NULL, Undef)
       ELSE IF Has(target)
       THEN /\ IF currentBranch # NULL
               THEN /\ branches' = [n \in DOMAIN branches \cup {currentBranch} |->
                                       IF n = currentBranch THEN target ELSE branches[n]]
                    /\ UNCHANGED <<currentBranch, detachedHash>>
               ELSE /\ detachedHash' = target
                    /\ UNCHANGED <<currentBranch, branches>>
            /\ Settle(c, "checkout", NULL, NULL, normalizeState(Get(target).state))
       ELSE /\ Settle(c, "checkout", "Ref not found", NULL, Undef)
            /\ UNCHANGED <<currentBranch, detachedHash, branches>>
    /\ UNCHANGED <<commits, headRef, now>>

\* Variant: checking a branch out leaves the detached hash in place.
Checkout_keepDetached(c, target) ==
    /\ IF target \in DOMAIN branches
       THEN /\ currentBranch' = target
            /\ UNCHANGED detachedHash
            /\ IF Has(branches[target])
               THEN Settle(c, "checkout", NULL, NULL, normalizeState(Get(branches[target]).state))
               ELSE Settle(c, "checkout", "Object not found", NULL, Undef)
       ELSE IF Has(target)
       THEN /\ currentBranch' = NULL
            /\ detachedHash' = target
            /\ Settle(c, "checkout", NULL, NULL, normalizeState(Get(target).state))
       ELSE /\ Settle(c, "checkout", "Ref not found", NULL, Undef)
            /\ UNCHANGED <<currentBranch, detachedHash>>
    /\ UNCHANGED <<commits, branches, headRef, now>>

\* AgitClient.checkout -> PureTsRepository.checkout
Checkout(c, target) ==
    /\ IF target \in DOMAIN branches
       THEN /\ currentBranch' = target
            /\ detachedHash' = NULL
            /\ IF Has(branches[target])
               THEN Settle(c, "checkout", NULL, NULL, normalizeState(Get(branches[target]).state))
               ELSE Settle(c, "checkout", "Object not found", NULL, Undef)
       ELSE IF Has(target)
       THEN /\ currentBranch' = NULL
            /\ detachedHash' = target
            /\ Settle(c, "checkout", NULL, NULL, normalizeState(Get(target).state))
       ELSE /\ Settle(c, "checkout", "Ref not found", NULL, Undef)
            /\ UNCHANGED <<currentBranch, detachedHash>>
    /\ UNCHANGED <<commits, branches, headRef, now>>

\* Variant: HEAD is looked at before the branch is.
MergeError_headFirst(branch) ==
    IF resolveHead = NULL THEN "No commits on current branch"
    ELSE IF ~Has(resolveHead) THEN "Object not found"
    ELSE IF branch \notin DOMAIN branches THEN "Branch not found"
    ELSE IF ~Has(branches[branch]) THEN "Object not found"
    ELSE NULL

\* Why PureTsRepository.merge throws, or NULL when it does not.
MergeError(branch) ==
    IF branch \notin DOMAIN branches THEN "Branch not found"
    ELSE IF ~Has(branches[branch]) THEN "Object not found"
    ELSE IF resolveHead = NULL THEN "No commits on current branch"
    ELSE IF ~Has(resolveHead) THEN "Object not found"
    ELSE NULL

\* Variant: the merged state is always taken from our side.
mergedState_ours(branch, strategy) == Get(resolveHead).state

\* The state PureTsRepository.merge commits.
mergedState(branch, strategy) ==
    IF strategy = MergeStrategy.Theirs THEN Get(branches[branch]).state
    ELSE Get(resolveHead).state

\* AgitClient.merge -> PureTsRepository.merge; strategy UNDEFINED is the
\* omitted option, which AgitClient.merge replaces by Ours.
Merge(c, branch, strategy) ==
    /\ IF MergeError(branch) # NULL
       THEN /\ Settle(c, "merge", MergeError(branch), NULL, Undef)
            /\ UNCHANGED <<commits, branches, detachedHash>>
       ELSE /\ LET st == mergedState(branch, IF strategy = UNDEFINED
                                             THEN MergeStrategy.Ours ELSE strategy)
                   new == NewCommit(JsonStringify(st.memory), JsonStringify(st.world_state),
                             <<"merge branch '", branch, "' into '",
                               IF currentBranch # NULL THEN currentBranch ELSE "HEAD", "'">>,
                             ActionType.Merge, st.cost, st.metadata)
               IN  /\ Store(new)
                   /\ Settle(c, "merge", NULL, new.hash, Undef)
    /\ UNCHANGED <<headRef, currentBranch, now>>

\* Variant: revert moves HEAD back to the target instead of committing.
Revert_reset(c, toHash) ==
    /\ IF ~Has(toHash)
       THEN /\ Settle(c, "revert", "Object not found", NULL, Undef)
            /\ UNCHANGED <<commits, branches, detachedHash>>
       ELSE /\ IF currentBranch # NULL
               THEN /\ branches' = [n \in DOMAIN branches \cup {currentBranch} |->
                                       IF n = currentBranch THEN toHash ELSE branches[n]]
                    /\ UNCHANGED detachedHash
               ELSE /\ detachedHash' = toHash
                    /\ UNCHANGED branches
            /\ UNCHANGED commits
            /\ Settle(c, "revert", NULL, NULL, normalizeState(Get(toHash).state))
    /\ UNCHANGED <<headRef, currentBranch, now>>

\* Variant of Revert that writes the rollback commit without the target's metadata.
Revert_noMetadata(c, toHash) ==
    /\ IF ~Has(toHash)
       THEN /\ Settle(c, "revert", "Object not found", NULL, Undef)
            /\ UNCHANGED <<commits, branches, detachedHash>>
       ELSE /\ LET st == Get(toHash).state
                   new == NewCommit(JsonStringify(st.memory), JsonStringify(st.world_state),
                             <<"revert to ", toHash>>,
                             ActionType.Rollback, st.cost, Undef)
               IN  /\ Store(new)
                   /\ Settle(c, "revert", NULL, NULL, normalizeState(st))
    /\ UNCHANGED <<headRef, currentBranch, now>>

\* Variant: an unknown target is noticed only after a rollback commit of an
\* empty state was written.
Revert_commitBeforeLookup(c, toHash) ==
    /\ IF ~Has(toHash)
       THEN /\ LET new == NewCommit(JsonStringify(Null), JsonStringify(Obj(<<>>)),
                             <<"revert to ", toHash>>,
                             ActionType.Rollback, Undef, Undef)
               IN  Store(new)
            /\ Settle(c, "revert", "Object not found", NULL, Undef)
       ELSE /\ LET st == Get(toHash).state
                   new == NewCommit(JsonStringify(st.memory), JsonStringify(st.world_state),
                             <<"revert to ", toHash>>,
                             ActionType.Rollback, st.cost, st.metadata)
               IN  /\ Store(new)
                   /\ Settle(c, "revert", NULL, NULL, normalizeState(st))
    /\ UNCHANGED <<headRef, currentBranch, now>>

\* Variant: revert rewrites the state of the commit at HEAD in place.
Revert_rewriteHead(c, toHash) ==
    /\ IF ~Has(toHash)
       THEN /\ Settle(c, "revert", "Object not found", NULL, Undef)
            /\ UNCHANGED <<commits, branches, detachedHash>>
       ELSE /\ commits' = [i \in 1..Len(commits) |->
                              IF commits[i].hash = resolveHead
                              THEN [commits[i] EXCEPT !.state = Get(toHash).state,
                                                      !.action_type = ActionType.Rollback]
                              ELSE commits[i]]
            /\ UNCHANGED <<branches, detachedHash>>
            /\ Settle(c, "revert", NULL, NULL, normalizeState(Get(toHash).state))
    /\ UNCHANGED <<headRef, currentBranch, now>>

\* AgitClient.revert -> PureTsRepository.revert
Revert(c, toHash) ==
    /\ IF ~Has(toHash)
       THEN /\ Settle(c, "revert", "Object not found", NULL, Undef)
            /\ UNCHANGED <<commits, branches, detachedHash>>
       ELSE /\ LET st == Get(toHash).state
                   new == NewCommit(JsonStringify(st.memory), JsonStringify(st.world_state),
                             <<"revert to ", toHash>>,
                             ActionType.Rollback, st.cost, st.metadata)
               IN  /\ Store(new)
                   /\ Settle(c, "revert", NULL, NULL, normalizeState(st))
    /\ UNCHANGED <<headRef, currentBranch, now>>

\* AgitClient.getState -> PureTsRepository.getState
getState(hash) == normalizeState(Get(hash).state)

\* The caller receives the result of its call.
Return(c) ==
    /\ pend[c] # Idle
    /\ pend' = [pend EXCEPT ![c] = Idle]
    /\ UNCHANGED <<commits, branches, headRef, detachedHash, currentBranch, now, calls, auditLog, client,
                   console, did>>

\* A millisecond passes.
Tick ==
    /\ now < MaxClock
    /\ now' = now + 1
    /\ UNCHANGED <<commits, branches, headRef, detachedHash, currentBranch, pend, calls, auditLog, client,
                   console, did>>

\* One caller, awaiting each call before the next.
Next ==
    \/ \E o \in CommitInputs : Commit("a", o)
    \/ \E target \in RefInputs : Checkout("a", target)
    \/ \E toHash \in StoredHashes \cup {Garbage} : Revert("a", toHash)
    \/ \E branch \in {"feature", Garbage}, strategy \in Strategies :
          Merge("a", branch, strategy)
    \/ \E name \in NameInputs, from \in StoredHashes \cup {"main", UNDEFINED} :
          Branch("a", name, from)
    \/ Tick

Spec == Init /\ [][Next]_vars

\* Two callers; each issues a call only after its previous one returned,
\* but while the other's may still be outstanding.
NextRace ==
    \/ \E c \in Callers, o \in CommitInputs : pend[c] = Idle /\ Commit(c, o)
    \/ \E c \in Callers : pend[c] = Idle /\ Branch(c, "feature", UNDEFINED)
    \/ \E c \in Callers, target \in {"main", "feature"} :
          pend[c] = Idle /\ Checkout(c, target)
    \/ \E c \in Callers, strategy \in Strategies :
          pend[c] = Idle /\ Merge(c, "feature", strategy)
    \/ \E c \in Callers, toHash \in StoredHashes : pend[c] = Idle /\ Revert(c, toHash)
    \/ \E c \in Callers : Return(c)
    \/ Tick

SpecRace == Init /\ [][NextRace]_vars

(***************************************************************************)
(* Derived views                                                           *)
(***************************************************************************)
\* AgitClient.status()
status ==
    [head |-> resolveHead, current_branch |-> currentBranch, branches |-> DOMAIN branches]

\* The commit HEAD resolves to (HEAD must resolve to a stored commit).
Tip == Get(resolveHead)

\* The parents recorded for h in the commit map cs.
ParentsIn(cs, h) ==
    IF \E i \in 1..Len(cs) : cs[i].hash = h
    THEN {GetIn(cs, h).parent_hashes[i] : i \in 1..Len(GetIn(cs, h).parent_hashes)}
    ELSE {}

RECURSIVE ReachIn(_, _, _)
ReachIn(cs, S, n) ==
    IF n = 0 THEN S ELSE ReachIn(cs, S \cup UNION {ParentsIn(cs, x) : x \in S}, n - 1)

\* h and everything reachable from it over the parent links of cs
AncestryIn(cs, h) == ReachIn(cs, {h}, Len(cs))

\* The commit a call appended to the store, when it appended one.
Appended == commits'[Len(commits')]

\* The commit stored under hash once the call has acted.
GetAfter(hash) == GetIn(commits', hash)

(***************************************************************************)
(* Properties                                                              *)
(***************************************************************************)

\* C1 (as claimed): a successful merge(branch, strategy) adds exactly one
\* commit, whose parents are <<HEAD before the merge, tip of the merged
\* branch>>, whose action_type is merge, and HEAD then resolves to it.
C1_MergeCommitHasTwoParents ==
    [][\A c \in Callers, b \in NameInputs, s \in Strategies :
          (Merge(c, b, s) /\ pend'[c].err = NULL) =>
              /\ Len(commits') = Len(commits) + 1
              /\ Appended.parent_hashes = <<resolveHead, branches[b]>>
              /\ Appended.action_type = ActionType.Merge
              /\ resolveHead' = Appended.hash]_vars

\* C2 (as claimed): a successful revert(h) adds exactly one commit, whose
\* single parent is the HEAD before the call, whose action_type is rollback;
\* it returns the state stored at h, and HEAD then resolves to the new commit.
C2_RevertAlwaysAddsACommit ==
    [][\A c \in Callers, h \in StoredHashes :
          (Revert(c, h) /\ pend'[c].err = NULL) =>
              /\ Len(commits') = Len(commits) + 1
              /\ Appended.parent_hashes = <<resolveHead>>
              /\ Appended.action_type = ActionType.Rollback
              /\ pend'[c].state = getState(h)
              /\ resolveHead' = Appended.hash]_vars

\* C2 (amended): after a successful revert(h) HEAD resolves to a stored
\* commit whose single parent is the HEAD before the call, whose action_type
\* is rollback and whose message names h; the call returns the state stored
\* at h.  That commit is the one new commit of the call, unless a commit
\* with the same parent, state, message, action type and millisecond
\* timestamp was stored before: then the store is left as it was.
C2_RevertCommit ==
    [][\A c \in Callers, h \in StoredHashes :
          (Revert(c, h) /\ pend'[c].err = NULL) =>
              /\ resolveHead' \in StoredHashes'
              /\ Tip'.parent_hashes = <<resolveHead>>
              /\ Tip'.action_type = ActionType.Rollback
              /\ Tip'.message = <<"revert to ", h>>
              /\ pend'[c].state = getState(h)
              /\ \/ Len(commits') = Len(commits) + 1 /\ Appended = Tip'
                                                     /\ ~Has(resolveHead')
                 \/ commits' = commits /\ Has(resolveHead')
                                        /\ Tip'.timestamp = now]_vars

\* A revert to a commit other than the HEAD it was issued at has acted.
C2_Witness ==
    /\ pend["a"].op = "revert" /\ pend["a"].err = NULL
    /\ Has(resolveHead) /\ Tip.action_type = ActionType.Rollback
    /\ Tip.message[2] # Tip.parent_hashes[1]
    /\ pend["a"].state = getState(Tip.message[2])

C4_ParentOnlyWhenAttached ==
    [][\A c \in Callers, o \in CommitInputs :
          Commit(c, o) =>
              GetAfter(pend'[c].hash).parent_hashes =
                  IF currentBranch # NULL /\ currentBranch \in DOMAIN branches
                  THEN <<branches[currentBranch]>> ELSE <<>>]_vars

\* C4 (amended): the commit made by commit() has parent_hashes <<h>> exactly
\* when HEAD resolves to h, be it through the ref of the attached branch or
\* as the detached hash; it is <<>> only when HEAD is attached to a branch
\* that has no commit yet.
C4_ParentIsHead ==
    [][\A c \in Callers, o \in CommitInputs :
          Commit(c, o) =>
              GetAfter(pend'[c].hash).parent_hashes =
                  IF currentBranch = NULL THEN <<detachedHash>>
                  ELSE IF currentBranch \in DOMAIN branches
                  THEN <<branches[currentBranch]>> ELSE <<>>]_vars

\* commit() has acted on a detached HEAD.
C4_Witness ==
    /\ pend["a"].op = "commit"
    /\ currentBranch = NULL
    /\ Get(pend["a"].hash).parent_hashes # <<>>
    /\ detachedHash = pend["a"].hash

\* C5: after a commit that returned x, status().head is x; if HEAD was
\* attached to b the ref of b is x and current_branch is still b; if HEAD
\* was detached current_branch is still null.
C5_HeadIsReturnedHash ==
    [][\A c \in Callers, o \in CommitInputs :
          Commit(c, o) =>
              LET x == pend'[c].hash
              IN  /\ pend'[c].err = NULL
                  /\ status'.head = x
                  /\ x \in StoredHashes'
                  /\ status'.current_branch = status.current_branch
                  /\ currentBranch # NULL =>
                        currentBranch \in DOMAIN branches' /\ branches'[currentBranch] = x]_vars

\* commit() has acted on an attached HEAD that had a commit before.
C5_Witness ==
    /\ pend["a"].op = "commit"
    /\ currentBranch = "feature"
    /\ branches["feature"] = pend["a"].hash
    /\ Get(pend["a"].hash).parent_hashes # <<>>

\* C6: a freshly opened repository reports head null, current_branch main
\* and no branches; the first commit made in that state creates branch main
\* at the new commit; and a branch comes to exist only by a commit or a
\* branch creation that succeeded.
C6_FreshRepository ==
    /\ [](calls = 0 => status = [head |-> NULL, current_branch |-> "main", branches |-> {}])
    /\ [][\A c \in Callers, o \in CommitInputs :
             (commits = <<>> /\ DOMAIN branches = {} /\ Commit(c, o)) =>
                 branches' = ("main" :> pend'[c].hash)]_vars
    /\ [][(DOMAIN branches = {} /\ DOMAIN branches' # {}) =>
             \E c \in Callers : /\ pend'[c].op \in {"commit", "branch"}
                                /\ pend'[c].err = NULL
                                /\ calls' = calls + 1]_vars

\* The first commit of a fresh repository has acted.
C6_Witness ==
    /\ calls = 1 /\ pend["a"].op = "commit"
    /\ Len(commits) = 1
    /\ status = [head |-> commits[1].hash, current_branch |-> "main", branches |-> {"main"}]

\* C7 (as claimed): when a caller issues commit on a branch while another
\* caller's commit on that branch is still outstanding, exactly one of the
\* two commits succeeds and the other fails with Conflict.
C7_OneCommitConflicts ==
    [][\A c, d \in Callers, o \in CommitInputs :
          ( /\ c # d
            /\ pend[d].op = "commit" /\ pend[d].err = NULL
            /\ currentBranch # NULL /\ Ref(currentBranch) = pend[d].hash
            /\ pend[c] = Idle /\ Commit(c, o) ) =>
              LET won == {x \in {c, d} : pend'[x].err = NULL}
              IN  /\ Cardinality(won) = 1
                  /\ \A x \in {c, d} \ won : pend'[x].err = "Conflict"]_vars

\* C7 (amended): when a caller issues commit on a branch while another
\* caller's commit on that branch is still outstanding, both commits
\* succeed and neither fails with Conflict: they take effect in the order in
\* which they were issued, the later commit has the earlier one as its only
\* parent and becomes the tip of the branch.
C7_ConcurrentCommitsBothSucceed ==
    [][\A c, d \in Callers, o \in CommitInputs :
          ( /\ c # d
            /\ pend[d].op = "commit" /\ pend[d].err = NULL
            /\ currentBranch # NULL /\ Ref(currentBranch) = pend[d].hash
            /\ pend[c] = Idle /\ Commit(c, o) ) =>
              /\ pend'[c].err = NULL /\ pend'[d].err = NULL
              /\ pend'[c].hash \in StoredHashes' /\ pend'[d].hash \in StoredHashes'
              /\ pend'[c].hash # pend'[d].hash
              /\ GetAfter(pend'[c].hash).parent_hashes = <<pend[d].hash>>
              /\ branches'[currentBranch] = pend'[c].hash]_vars

\* Both callers have a commit outstanding; the second was made on the first.
C7_Witness ==
    /\ pend["a"].op = "commit" /\ pend["b"].op = "commit"
    /\ pend["a"].err = NULL /\ pend["b"].err = NULL
    /\ currentBranch = "main"
    /\ Get(pend["b"].hash).parent_hashes = <<pend["a"].hash>>
    /\ branches["main"] = pend["b"].hash

\* C8: whenever a commit, merge or revert issued by any caller succeeds
\* while HEAD is attached to a branch that has a tip, the branch stays
\* checked out, its new tip is a stored commit whose first parent is the tip
\* as it was immediately before, and everything reachable from the old tip
\* is reachable from the new one.
C8_BranchAdvancesFromItsTip ==
    [][\A c \in Callers :
          ( /\ pend[c] = Idle /\ calls' = calls + 1
            /\ pend'[c].op \in {"commit", "merge", "revert"} /\ pend'[c].err = NULL
            /\ currentBranch # NULL /\ currentBranch \in DOMAIN branches ) =>
              LET old == branches[currentBranch]
                  new == branches'[currentBranch]
              IN  /\ currentBranch' = currentBranch
                  /\ new \in StoredHashes'
                  /\ new # old
                  /\ Len(GetAfter(new).parent_hashes) >= 1
                  /\ GetAfter(new).parent_hashes[1] = old
                  /\ AncestryIn(commits, old) \subseteq AncestryIn(commits', new)
                  /\ \A n \in DOMAIN branches \ {currentBranch} : branches'[n] = branches[n]]_vars

\* Three operations by two callers are queued up on main, each on top of
\* the one before: a commit, then a revert, then a merge.
C8_Witness ==
    /\ currentBranch = "main" /\ Len(commits) = 3
    /\ commits[2].action_type = ActionType.Rollback
    /\ commits[3].action_type = ActionType.Merge
    /\ commits[2].parent_hashes = <<commits[1].hash>>
    /\ commits[3].parent_hashes[1] = commits[2].hash
    /\ branches["main"] = commits[3].hash
    /\ pend["a"] # Idle /\ pend["b"] # Idle

\* C9: checkout(target) tries target as a branch name first: if it names a
\* branch, HEAD is attached to it (current_branch = target, head = the
\* branch's ref); otherwise, if it is the hash of a stored commit, HEAD is
\* detached at it (current_branch = null, head = target).  A checkout that
\* succeeds returns the state stored at the commit HEAD then resolves to.
C9_CheckoutBranchBeforeHash ==
    [][\A c \in Callers, t \in RefInputs :
          Checkout(c, t) =>
              IF t \in DOMAIN branches
              THEN /\ status'.current_branch = t
                   /\ status'.head = branches[t]
                   /\ branches[t] \in StoredHashes => pend'[c].err = NULL
                   /\ pend'[c].err = NULL => pend'[c].state = getState(branches[t])
              ELSE IF t \in StoredHashes
              THEN /\ status'.current_branch = NULL
                   /\ status'.head = t
                   /\ pend'[c].err = NULL
                   /\ pend'[c].state = getState(t)
              ELSE pend'[c].err # NULL]_vars

\* checkout has acted on a target that is both the name of a branch and the
\* hash of a commit other than the one the branch points to.
C9_Witness ==
    /\ pend["a"].op = "checkout" /\ pend["a"].err = NULL
    /\ currentBranch \in StoredHashes
    /\ currentBranch \in DOMAIN branches
    /\ branches[currentBranch] # currentBranch
    /\ pend["a"].state = getState(branches[currentBranch])
    /\ pend["a"].state # getState(currentBranch)

\* C10 (as claimed): branch(name, from) on a name that already is a branch
\* fails with AlreadyExists and leaves every ref where it was.
C10_BranchRejectsExistingName ==
    [][\A c \in Callers, name \in NameInputs, from \in RefInputs \cup {UNDEFINED} :
          (name \in DOMAIN branches /\ Branch(c, name, from)) =>
              /\ pend'[c].err = "AlreadyExists"
              /\ branches' = branches]_vars

\* C11 (as claimed): branch(name, from) is rejected and creates no ref when
\* the source cannot be resolved, that is when from is given but is neither
\* the name of a branch nor the hash of a stored commit, or when from is
\* omitted and HEAD has no commit; when it succeeds the new ref points at
\* the stored commit the source resolves to.
C11_BranchRejectsUnresolvedSource ==
    [][\A c \in Callers, name \in NameInputs, from \in RefInputs \cup {UNDEFINED} :
          Branch(c, name, from) =>
              LET unresolved ==
                      IF from # UNDEFINED
                      THEN from \notin DOMAIN branches /\ from \notin StoredHashes
                      ELSE resolveHead = NULL
              IN  IF unresolved
                  THEN pend'[c].err # NULL /\ branches' = branches
                  ELSE /\ pend'[c].err = NULL
                       /\ branches'[name] \in StoredHashes
                       /\ branches'[name] =
                             (IF from = UNDEFINED THEN resolveHead
                              ELSE IF from \in DOMAIN branches THEN branches[from]
                              ELSE from)]_vars

\* C12: a merge with strategy Ours commits the memory, world_state and cost
\* of the commit HEAD resolved to before the merge; with strategy Theirs
\* those of the tip of the merged branch.  Neither is rejected with a
\* conflict: the call succeeds whenever the branch exists with a stored tip
\* and HEAD resolves to a stored commit, and is rejected only otherwise.
C12_OursTheirsVerbatim ==
    [][\A c \in Callers, b \in NameInputs \cup {Garbage},
          s \in {MergeStrategy.Ours, MergeStrategy.Theirs} :
          Merge(c, b, s) =>
              /\ pend'[c].err \in {NULL, "Branch not found", "Object not found",
                                   "No commits on current branch"}
              /\ ( /\ b \in DOMAIN branches /\ Ref(b) \in StoredHashes
                   /\ resolveHead \in StoredHashes ) => pend'[c].err = NULL
              /\ pend'[c].err = NULL =>
                    LET side == IF s = MergeStrategy.Ours THEN Get(resolveHead).state
                                ELSE Get(branches[b]).state
                        got == GetAfter(pend'[c].hash)
                    IN  /\ got.action_type = ActionType.Merge
                        /\ got.state.memory = side.memory
                        /\ got.state.world_state = side.world_state
                        /\ got.state.cost = side.cost
                        /\ resolveHead' = pend'[c].hash]_vars

\* A merge with strategy Theirs has acted where the two sides differ in
\* memory and in cost: HEAD is at the merge commit, which carries the state
\* of the merged branch and not that of its own parent.
C12_Witness ==
    /\ pend["a"].op = "merge" /\ pend["a"].err = NULL
    /\ resolveHead = pend["a"].hash /\ Has(resolveHead)
    /\ Tip.action_type = ActionType.Merge
    /\ "feature" \in DOMAIN branches /\ Has(branches["feature"])
    /\ Tip.state.memory = Get(branches["feature"]).state.memory
    /\ Tip.state.cost = Get(branches["feature"]).state.cost
    /\ Tip.state.memory # Get(Tip.parent_hashes[1]).state.memory
    /\ Tip.state.cost # Get(Tip.parent_hashes[1]).state.cost

\* C15: merge(branch, strategy) on a name that is no branch is rejected with
\* "Branch not found", whatever the strategy and whatever HEAD is, and the
\* rejected call leaves the commits, every ref, HEAD and current_branch as
\* they were.
C15_MergeUnknownBranch ==
    [][\A c \in Callers, b \in NameInputs \cup {Garbage}, s \in Strategies :
          (b \notin DOMAIN branches /\ Merge(c, b, s)) =>
              /\ pend'[c].err = "Branch not found"
              /\ commits' = commits
              /\ branches' = branches
              /\ status' = status
              /\ detachedHash' = detachedHash]_vars

\* A merge of a name that is no branch has been rejected in a repository
\* that has a commit and a branch.
C15_Witness ==
    /\ pend["a"].op = "merge" /\ pend["a"].err = "Branch not found"
    /\ Len(commits) > 0 /\ Has(resolveHead)
    /\ "feature" \notin DOMAIN branches

(***************************************************************************)
(* Merging a forked history                                                *)
(***************************************************************************)
\* Object.keys(v), in insertion order
ObjKeys(v) == [i \in 1..Len(v.obj) |-> v.obj[i][1]]

\* key in v
HasKey(v, key) == \E i \in 1..Len(v.obj) : v.obj[i][1] = key

\* v[key]: undefined when v has no such member
ObjGet(v, key) ==
    IF HasKey(v, key)
    THEN v.obj[CHOOSE i \in 1..Len(v.obj) : v.obj[i][1] = key][2]
    ELSE Undef

\* Memories of a base and of two sides that each change one key of it.
MBase == Obj(<<<<"a", Num(0)>>, <<"b", Num(0)>>>>)
MOurs == Obj(<<<<"a", Num(1)>>, <<"b", Num(0)>>>>)
MTheirs == Obj(<<<<"a", Num(0)>>, <<"b", Num(1)>>>>)

MergeInput(memory, message) ==
    [memory |-> memory, world_state |-> Undef, message |-> <<message>>,
     action_type |-> UNDEFINED, cost |-> Undef, metadata |-> Undef]

MergeInputs ==
    {MergeInput(MBase, "base"), MergeInput(MOurs, "main work"),
     MergeInput(MTheirs, "feature work")}

\* The repository of the merge tests after their first two calls,
\* commit({memory, message: "base"}) and branch({name: "feature"}), both made
\* in millisecond 0; calls counts the calls issued from there on.
InitMerge ==
    /\ commits = << [hash |-> HashNames[1],
                     parent_hashes |-> <<>>,
                     message |-> <<"base">>,
                     author |-> "default",
                     timestamp |-> 0,
                     action_type |-> ActionType.Checkpoint,
                     state |-> [memory |-> MBase,
                                world_state |-> Obj(<<>>),
                                timestamp |-> 0,
                                cost |-> Num(0),
                                metadata |-> Undef]] >>
    /\ branches = [n \in {"main", "feature"} |-> HashNames[1]]
    /\ headRef = NULL
    /\ detachedHash = NULL
    /\ currentBranch = "main"
    /\ now = 0
    /\ pend = [c \in Callers |-> Idle]
    /\ calls = 0
    /\ auditLog = <<>>
    /\ console = <<>>
    /\ did = NULL
    /\ client = TestClient

\* One caller working on the two branches of the fork.
NextMerge ==
    \/ \E o \in MergeInputs : Commit("a", o)
    \/ \E target \in {"main", "feature"} \cup StoredHashes : Checkout("a", target)
    \/ \E branch \in {"main", "feature"}, strategy \in Strategies :
          Merge("a", branch, strategy)
    \/ Tick

SpecMerge == InitMerge /\ [][NextMerge]_vars

\* The merge base of two stored commits that have a common ancestor: the
\* common ancestor from which every other common ancestor is reachable.
MergeBase(h1, h2) ==
    LET common == AncestryIn(commits, h1) \cap AncestryIn(commits, h2)
    IN  CHOOSE x \in common : common \subseteq AncestryIn(commits, x)

\* Two states that agree in everything a caller passes to commit.
SameContent(s, t) ==
    /\ s.memory = t.memory
    /\ s.world_state = t.world_state
    /\ s.cost = t.cost
    /\ s.metadata = t.metadata

\* C13 (as claimed): a successful ThreeWay merge in which our side has the
\* content of the merge base commits the content of their side, and one in
\* which their side has the content of the merge base commits the content
\* of our side.
C13_ThreeWayNoOpSide ==
    [][\A c \in Callers, b \in {"main", "feature"} :
          (Merge(c, b, MergeStrategy.ThreeWay) /\ pend'[c].err = NULL) =>
              LET ours == Get(resolveHead).state
                  theirs == Get(branches[b]).state
                  base == Get(MergeBase(resolveHead, branches[b])).state
                  merged == GetAfter(pend'[c].hash).state
              IN  /\ SameContent(ours, base) => SameContent(merged, theirs)
                  /\ SameContent(theirs, base) => SameContent(merged, ours)]_vars

\* C14 (as claimed): when, relative to the merge base, our memory differs
\* only in key x and their memory only in another key y of the same object,
\* a ThreeWay merge succeeds and the merged memory has our value for x and
\* their value for y.
C14_ThreeWayRecursesPerKey ==
    [][\A c \in Callers, b \in {"main", "feature"} :
          ( /\ MergeError(b) = NULL
            /\ Merge(c, b, MergeStrategy.ThreeWay) ) =>
              LET ours == Get(resolveHead).state.memory
                  theirs == Get(branches[b]).state.memory
                  base == Get(MergeBase(resolveHead, branches[b])).state.memory
              IN  \A x, y \in {"a", "b"} :
                     ( /\ x # y
                       /\ ObjGet(ours, x) # ObjGet(base, x)
                       /\ ObjGet(ours, y) = ObjGet(base, y)
                       /\ ObjGet(theirs, y) # ObjGet(base, y)
                       /\ ObjGet(theirs, x) = ObjGet(base, x) ) =>
                         /\ pend'[c].err = NULL
                         /\ ObjGet(GetAfter(pend'[c].hash).state.memory, x) = ObjGet(ours, x)
                         /\ ObjGet(GetAfter(pend'[c].hash).state.memory, y) = ObjGet(theirs, y)]_vars

(***************************************************************************)
(* log                                                                     *)
(***************************************************************************)
DefaultLimit == 50

\* What callers pass as LogOptions.limit and LogOptions.branch.
LimitInputs == {Undef} \cup {Num(n) : n \in 0..MaxCalls}
LogBranchInputs == {UNDEFINED, Garbage, "main", "feature"}

\* The loop of PureTsRepository.log: breadth-first over parent links, each
\* hash visited once, hashes that are not stored skipped, until the queue is
\* empty or lim commits are collected.
RECURSIVE LogWalk(_, _, _, _)
LogWalk(queue, visited, result, lim) ==
    IF queue = <<>> \/ Len(result) >= lim THEN result
    ELSE LET h == Head(queue)
             seen == visited \cup {h}
         IN  IF h \in visited THEN LogWalk(Tail(queue), visited, result, lim)
             ELSE IF ~Has(h) THEN LogWalk(Tail(queue), seen, result, lim)
             ELSE LogWalk(Tail(queue) \o SelectSeq(Get(h).parent_hashes,
                                                   LAMBDA p : p \notin seen),
                          seen, Append(result, Get(h)), lim)

\* Array.prototype.sort with (a, b) => time(b) - time(a): a stable sort,
\* latest timestamp first.
RECURSIVE SortNewestFirst(_)
SortNewestFirst(s) ==
    IF s = <<>> THEN <<>>
    ELSE LET rest == SortNewestFirst(Tail(s))
             before == SelectSeq(rest, LAMBDA x : x.timestamp > Head(s).timestamp)
             after == SelectSeq(rest, LAMBDA x : x.timestamp <= Head(s).timestamp)
         IN  before \o <<Head(s)>> \o after

\* Variant: the limit option is not applied.
log_ignoreLimit(branch, limit) ==
    LET startHash == IF branch # UNDEFINED THEN Ref(branch) ELSE resolveHead
    IN  IF startHash = NULL THEN <<>>
        ELSE SortNewestFirst(LogWalk(<<startHash>>, {}, <<>>, DefaultLimit))

\* Variant: the result is not sorted.
log_oldestFirst(branch, limit) ==
    LET startHash == IF branch # UNDEFINED THEN Ref(branch) ELSE resolveHead
        walk == LogWalk(<<startHash>>, {}, <<>>, Nullish(limit, Num(DefaultLimit)).num)
    IN  IF startHash = NULL THEN <<>>
        ELSE [i \in 1..Len(walk) |-> walk[Len(walk) + 1 - i]]

\* AgitClient.log -> PureTsRepository.log
log(branch, limit) ==
    LET startHash == IF branch # UNDEFINED THEN Ref(branch) ELSE resolveHead
    IN  IF startHash = NULL THEN <<>>
        ELSE SortNewestFirst(LogWalk(<<startHash>>, {}, <<>>,
                                     Nullish(limit, Num(DefaultLimit)).num))

\* The hash log starts from.
LogTip(branch) == IF branch # UNDEFINED THEN Ref(branch) ELSE resolveHead

\* The stored commits among h and what is reachable from it.
Reachable(h) == AncestryIn(commits, h) \cap StoredHashes

\* One caller that commits, branches, checks out, merges and reverts, with
\* one CommitOptions value and one branch besides main.
NextLog ==
    \/ Commit("a", MergeInput(V1, "one"))
    \/ Branch("a", "feature", UNDEFINED)
    \/ \E target \in {"main", "feature"} \cup StoredHashes : Checkout("a", target)
    \/ \E strategy \in Strategies : Merge("a", "feature", strategy)
    \/ \E toHash \in StoredHashes : Revert("a", toHash)
    \/ Tick

SpecLog == Init /\ [][NextLog]_vars

\* C16: log(branch, limit) returns stored commits without duplicates, at
\* most limit of them (50 when limit is omitted), each the tip of the branch
\* (HEAD when branch is omitted) or one of its ancestors; when the tip has
\* fewer than limit ancestors, every commit reachable from the tip is
\* returned.
C16_LogBoundedAncestors ==
    \A branch \in LogBranchInputs, limit \in LimitInputs :
        LET r == log(branch, limit)
            lim == IF IsUndef(limit) THEN DefaultLimit ELSE limit.num
            reach == Reachable(LogTip(branch))
        IN  /\ Len(r) <= lim
            /\ \A i, j \in 1..Len(r) : i # j => r[i].hash # r[j].hash
            /\ \A i \in 1..Len(r) : r[i].hash \in reach /\ r[i] = Get(r[i].hash)
            /\ Cardinality(reach \ {LogTip(branch)}) < lim =>
                  {r[i].hash : i \in 1..Len(r)} = reach

\* A history of three commits is logged in full without a limit and cut to
\* two commits by limit 2.
C16_Witness ==
    /\ Len(log(UNDEFINED, Undef)) = 3
    /\ Len(log(UNDEFINED, Num(2))) = 2
    /\ Len(log("feature", Num(1))) = 1
    /\ Ref("feature") # resolveHead

\* C17: in what log returns, a commit comes before every returned commit
\* that is an ancestor of it; and with limit >= 1, when the tip (HEAD, or the
\* given branch) is a stored commit, the first commit returned is the tip.
C17_LogNewestFirst ==
    \A branch \in LogBranchInputs, limit \in LimitInputs :
        LET r == log(branch, limit)
            lim == IF IsUndef(limit) THEN DefaultLimit ELSE limit.num
        IN  /\ \A i, j \in 1..Len(r) :
                  (i # j /\ r[j].hash \in AncestryIn(commits, r[i].hash)) => i < j
            /\ (lim >= 1 /\ Has(LogTip(branch))) =>
                  Len(r) >= 1 /\ r[1].hash = LogTip(branch)

\* A history is logged that holds a merge and a rollback commit, two
\* commits of one millisecond and one of an earlier millisecond.
C17_Witness ==
    LET r == log(UNDEFINED, Undef)
    IN  /\ Len(r) = 3
        /\ r[1].hash = resolveHead
        /\ r[1].timestamp = r[2].timestamp
        /\ r[3].timestamp < r[2].timestamp
        /\ {r[1].action_type, r[2].action_type} = {ActionType.Merge, ActionType.Rollback}

(***************************************************************************)
(* diff                                                                    *)
(***************************************************************************)
ChangeType == [Added |-> "added", Removed |-> "removed", Changed |-> "changed"]

\* A DiffEntry; a property the code leaves out reads as undefined.
DiffEntry(path, change_type, old_value, new_value) ==
    [path |-> path, change_type |-> change_type,
     old_value |-> old_value, new_value |-> new_value]

RECURSIVE diffValues(_, _, _)
RECURSIVE DiffKeys(_, _, _, _)

\* Variant: a key that the target lacks is reported as changed to undefined.
DiffKey_removedAsChanged(base, target, path, key) ==
    LET currentPath == Append(path, key)
        bVal == ObjGet(base, key)
        tVal == ObjGet(target, key)
    IN  IF ~HasKey(base, key)
        THEN <<DiffEntry(currentPath, ChangeType.Added, Undef, JsonStringify(tVal))>>
        ELSE IF IsObj(bVal) /\ IsObj(tVal)
        THEN diffValues(bVal, tVal, currentPath)
        ELSE IF JsonStringify(bVal) # JsonStringify(tVal)
        THEN <<DiffEntry(currentPath, ChangeType.Changed,
                         JsonStringify(bVal), JsonStringify(tVal))>>
        ELSE <<>>

\* Variant: two objects are compared as whole values, like everything else.
DiffKey_noRecurse(base, target, path, key) ==
    LET currentPath == Append(path, key)
        bVal == ObjGet(base, key)
        tVal == ObjGet(target, key)
    IN  IF ~HasKey(base, key)
        THEN <<DiffEntry(currentPath, ChangeType.Added, Undef, JsonStringify(tVal))>>
        ELSE IF ~HasKey(target, key)
        THEN <<DiffEntry(currentPath, ChangeType.Removed, JsonStringify(bVal), Undef)>>
        ELSE IF JsonStringify(bVal) # JsonStringify(tVal)
        THEN <<DiffEntry(currentPath, ChangeType.Changed,
                         JsonStringify(bVal), JsonStringify(tVal))>>
        ELSE <<>>

\* An array seen as the object of its indices.
ArrAsObj(v) == Obj([i \in 1..Len(v.arr) |-> <<ToString(i - 1), v.arr[i]>>])

\* Variant: two arrays are compared index by index, like two objects.
DiffKey_arrayByIndex(base, target, path, key) ==
    LET currentPath == Append(path, key)
        bVal == ObjGet(base, key)
        tVal == ObjGet(target, key)
    IN  IF ~HasKey(base, key)
        THEN <<DiffEntry(currentPath, ChangeType.Added, Undef, JsonStringify(tVal))>>
        ELSE IF ~HasKey(target, key)
        THEN <<DiffEntry(currentPath, ChangeType.Removed, JsonStringify(bVal), Undef)>>
        ELSE IF IsObj(bVal) /\ IsObj(tVal)
        THEN diffValues(bVal, tVal, currentPath)
        ELSE IF IsArr(bVal) /\ IsArr(tVal)
        THEN diffValues(ArrAsObj(bVal), ArrAsObj(tVal), currentPath)
        ELSE IF JsonStringify(bVal) # JsonStringify(tVal)
        THEN <<DiffEntry(currentPath, ChangeType.Changed,
                         JsonStringify(bVal), JsonStringify(tVal))>>
        ELSE <<>>

\* The body of the loop of diffValues: what one key contributes.
DiffKey(base, target, path, key) ==
    LET currentPath == Append(path, key)
        bVal == ObjGet(base, key)
        tVal == ObjGet(target, key)
    IN  IF ~HasKey(base, key)
        THEN <<DiffEntry(currentPath, ChangeType.Added, Undef, JsonStringify(tVal))>>
        ELSE IF ~HasKey(target, key)
        THEN <<DiffEntry(currentPath, ChangeType.Removed, JsonStringify(bVal), Undef)>>
        ELSE IF IsObj(bVal) /\ IsObj(tVal)
        THEN diffValues(bVal, tVal, currentPath)
        ELSE IF JsonStringify(bVal) # JsonStringify(tVal)
        THEN <<DiffEntry(currentPath, ChangeType.Changed,
                         JsonStringify(bVal), JsonStringify(tVal))>>
        ELSE <<>>

\* new Set([...Object.keys(base), ...Object.keys(target)]), in iteration order
AllKeys(base, target) ==
    ObjKeys(base) \o SelectSeq(ObjKeys(target), LAMBDA k : ~HasKey(base, k))

\* The entries pushed for a run of keys, in order.
DiffKeys(base, target, path, keys) ==
    IF keys = <<>> THEN <<>>
    ELSE DiffKey(base, target, path, Head(keys))
             \o DiffKeys(base, target, path, Tail(keys))

diffValues(base, target, path) == DiffKeys(base, target, path, AllKeys(base, target))

\* Variant: the state is compared without its timestamp.
StateObj_noTimestamp(state) ==
    Obj(<< <<"memory", state.memory>>, <<"world_state", state.world_state>>,
           <<"cost", state.cost>>, <<"metadata", state.metadata>> >>)

\* An AgentState as the object commit() built: its keys in the order of the
\* object literal, the timestamp an ISO string.
StateObj(state) ==
    Obj(<< <<"memory", state.memory>>, <<"world_state", state.world_state>>,
           <<"timestamp", Str([iso |-> state.timestamp])>>,
           <<"cost", state.cost>>, <<"metadata", state.metadata>> >>)

\* AgitClient.diff -> PureTsRepository.diff
diff(hash1, hash2) ==
    IF ~Has(hash1) \/ ~Has(hash2)
    THEN [err |-> "Object not found", base_hash |-> hash1, target_hash |-> hash2,
          entries |-> <<>>]
    ELSE [err |-> NULL, base_hash |-> hash1, target_hash |-> hash2,
          entries |-> diffValues(StateObj(Get(hash1).state), StateObj(Get(hash2).state), <<>>)]

\* States that differ in added, removed and changed keys, in a nested
\* object, in an array and in the order of the keys of an object.
D1 == Obj(<< <<"a", Num(1)>>, <<"b", Num(2)>> >>)
D2 == Obj(<< <<"a", Num(1)>>, <<"b", Num(3)>>, <<"c", Num(4)>> >>)
W1 == Obj(<< <<"cfg", Obj(<< <<"x", Num(1)>>, <<"z", Num(0)>> >>)>>,
             <<"list", Arr(<< Obj(<< <<"p", Num(1)>>, <<"q", Num(2)>> >>) >>)>>,
             <<"mode", Num(1)>>,
             <<"tags", Arr(<< Num(1), Num(2) >>)>> >>)
W2 == Obj(<< <<"list", Arr(<< Obj(<< <<"q", Num(2)>>, <<"p", Num(1)>> >>) >>)>>,
             <<"cfg", Obj(<< <<"x", Num(2)>>, <<"y", Null>>, <<"z", Num(0)>> >>)>>,
             <<"mode", Obj(<< <<"k", Num(1)>> >>)>>,
             <<"tags", Arr(<< Num(1), Num(3) >>)>> >>)

DiffInputs ==
    { [memory |-> D1, world_state |-> W1,
       message |-> <<"first">>, action_type |-> UNDEFINED, cost |-> Undef,
       metadata |-> Undef],
      [memory |-> D2, world_state |-> W2,
       message |-> <<"second">>, action_type |-> UNDEFINED, cost |-> Num(1),
       metadata |-> Obj(<< <<"run", Str([raw |-> "abc"])>> >>)] }

\* One caller that commits states and compares the commits.
NextDiff ==
    \/ \E o \in DiffInputs : Commit("a", o)
    \/ Tick

SpecDiff == Init /\ [][NextDiff]_vars

\* The entries of a sequence, as a set.
Entries(s) == {s[i] : i \in 1..Len(s)}

\* C18 (as claimed): the diff of two commits made from the same memory,
\* world_state, cost and metadata has no entries; so has diff(h, h).
C18_DiffIdentity ==
    \A h1, h2 \in StoredHashes :
        SameContent(Get(h1).state, Get(h2).state) => diff(h1, h2).entries = <<>>

\* C18 (amended): the diff of two commits made from the same memory,
\* world_state, cost and metadata has no entry for any of these four; it is
\* empty when the two commits were made in the same millisecond (so
\* diff(h, h) is empty) and is otherwise the one entry Changed at path
\* <<"timestamp">>, from the first commit's time to the second's.
C18_DiffOfSameContent ==
    \A h1, h2 \in StoredHashes :
        SameContent(Get(h1).state, Get(h2).state) =>
            LET d == diff(h1, h2)
                t1 == Get(h1).state.timestamp
                t2 == Get(h2).state.timestamp
            IN  /\ d.err = NULL /\ d.base_hash = h1 /\ d.target_hash = h2
                /\ d.entries =
                      IF t1 = t2 THEN <<>>
                      ELSE <<DiffEntry(<<"timestamp">>, ChangeType.Changed,
                                       JsonStringify(Str([iso |-> t1])),
                                       JsonStringify(Str([iso |-> t2])))>>

\* One state with a nested object and an array was committed in two
\* different milliseconds, and once more in the second of them.
C18_Witness ==
    \E h1, h2, h3 \in StoredHashes :
        /\ h1 # h2 /\ h2 # h3
        /\ Get(h1).state.memory = D2
        /\ SameContent(Get(h1).state, Get(h2).state)
        /\ SameContent(Get(h2).state, Get(h3).state)
        /\ Len(diff(h1, h2).entries) = 1
        /\ diff(h2, h3).entries = <<>>

\* The Added entries of a diff as (path, value) pairs; likewise the Removed
\* entries, and the Changed entries as (path, old, new) triples.
AddedOf(d) == {<<e.path, e.new_value>> : e \in {x \in Entries(d.entries) : x.change_type = ChangeType.Added}}
RemovedOf(d) == {<<e.path, e.old_value>> : e \in {x \in Entries(d.entries) : x.change_type = ChangeType.Removed}}
ChangedOf(d) == {<<e.path, e.old_value, e.new_value>> : e \in {x \in Entries(d.entries) : x.change_type = ChangeType.Changed}}

\* C19: for all stored commits with states S and T, diff(S, T) holds
\* Added(p, v) exactly when diff(T, S) holds Removed(p, v), and diff(S, T)
\* holds Changed(p, a, b) exactly when diff(T, S) holds Changed(p, b, a).
C19_DiffSymmetry ==
    \A h1, h2 \in StoredHashes :
        \A f \in {diff(h1, h2)} : \A g \in {diff(h2, h1)} :
            /\ AddedOf(f) = RemovedOf(g)
            /\ RemovedOf(f) = AddedOf(g)
            /\ ChangedOf(f) = {<<c[1], c[3], c[2]>> : c \in ChangedOf(g)}
            /\ Len(f.entries) = Len(g.entries)

\* Two stored commits whose diff adds a key to memory and to a nested
\* object of world_state, changes a key of that object and replaces a
\* number by an object; the reverse diff removes what this one adds.
C19_Witness ==
    \E h1, h2 \in StoredHashes :
        LET f == diff(h1, h2)
        IN  /\ <<<<"memory", "c">>, JsonStringify(Num(4))>> \in AddedOf(f)
            /\ <<<<"world_state", "cfg", "y">>, JsonStringify(Null)>> \in AddedOf(f)
            /\ <<<<"world_state", "cfg", "x">>, JsonStringify(Num(1)), JsonStringify(Num(2))>> \in ChangedOf(f)
            /\ <<<<"world_state", "mode">>, JsonStringify(Num(1)),
                  JsonStringify(Obj(<< <<"k", Num(1)>> >>))>> \in ChangedOf(f)
            /\ RemovedOf(diff(h2, h1)) = AddedOf(f)

\* The pairs of objects that one comparison visits: the two it is given and,
\* for each key that holds an object on both sides, the pairs below it.
RECURSIVE ObjectPairs(_, _, _)
ObjectPairs(base, target, path) ==
    {<<base, target, path>>} \cup
    UNION { ObjectPairs(ObjGet(base, k), ObjGet(target, k), Append(path, k)) :
            k \in {x \in Entries(ObjKeys(base)) :
                      /\ HasKey(target, x)
                      /\ IsObj(ObjGet(base, x)) /\ IsObj(ObjGet(target, x))} }

\* What the comparison of two objects at one path is claimed to emit.
ClaimedEntries(base, target, path) ==
    LET bKeys == Entries(ObjKeys(base))
        tKeys == Entries(ObjKeys(target))
        both  == bKeys \cap tKeys
        nested == {k \in both : IsObj(ObjGet(base, k)) /\ IsObj(ObjGet(target, k))}
    IN  {DiffEntry(Append(path, k), ChangeType.Removed, JsonStringify(ObjGet(base, k)), Undef) :
            k \in bKeys \ tKeys}
        \cup
        {DiffEntry(Append(path, k), ChangeType.Added, Undef, JsonStringify(ObjGet(target, k))) :
            k \in tKeys \ bKeys}
        \cup
        {DiffEntry(Append(path, k), ChangeType.Changed,
                   JsonStringify(ObjGet(base, k)), JsonStringify(ObjGet(target, k))) :
            k \in {x \in both \ nested : ObjGet(base, x) # ObjGet(target, x)}}
        \cup
        UNION {Entries(diffValues(ObjGet(base, k), ObjGet(target, k), Append(path, k))) :
            k \in nested}

\* C20: for two JSON objects at the same path, diff emits exactly Removed
\* for each key only in base, Added for each key only in target, the
\* entries of the recursive comparison for each key whose values are both
\* objects, Changed for each key in both whose values differ and are not
\* both objects, and nothing for a key whose values are equal; no entry is
\* emitted twice.
C20_DiffValuesByKey ==
    \A h1, h2 \in StoredHashes :
        \A p \in ObjectPairs(StateObj(Get(h1).state), StateObj(Get(h2).state), <<>>) :
            \A out \in {diffValues(p[1], p[2], p[3])} :
                /\ Entries(out) = ClaimedEntries(p[1], p[2], p[3])
                /\ Cardinality(Entries(out)) = Len(out)

\* {a: 1, b: 2} and {a: 1, b: 3, c: 4} were committed: the diff holds one
\* Changed at memory.b, one Added at memory.c and nothing at memory.a.
C20_Witness ==
    \E h1, h2 \in StoredHashes :
        /\ Get(h1).state.memory = D1 /\ Get(h2).state.memory = D2
        /\ Entries(diffValues(D1, D2, <<"memory">>)) \subseteq Entries(diff(h1, h2).entries)
        /\ diffValues(D1, D2, <<"memory">>) =
              << DiffEntry(<<"memory", "b">>, ChangeType.Changed, JsonStringify(Num(2)), JsonStringify(Num(3))),
                 DiffEntry(<<"memory", "c">>, ChangeType.Added, Undef, JsonStringify(Num(4))) >>
        /\ <<D1, D2, <<"memory">>>> \in
              ObjectPairs(StateObj(Get(h1).state), StateObj(Get(h2).state), <<>>)

\* Canonical equality (spec section 4.6): equality up to the order of the
\* keys of objects at any depth, arrays position by position.
RECURSIVE CanonEq(_, _)
CanonEq(a, b) ==
    IF IsObj(a) /\ IsObj(b)
    THEN /\ Entries(ObjKeys(a)) = Entries(ObjKeys(b))
         /\ \A k \in Entries(ObjKeys(a)) : CanonEq(ObjGet(a, k), ObjGet(b, k))
    ELSE IF IsArr(a) /\ IsArr(b)
    THEN /\ Len(a.arr) = Len(b.arr)
         /\ \A i \in 1..Len(a.arr) : CanonEq(a.arr[i], b.arr[i])
    ELSE a = b

\* The keys that two objects share and whose values are compared as whole
\* values, not key by key.
WholeKeys(base, target) ==
    {k \in Entries(ObjKeys(base)) \cap Entries(ObjKeys(target)) :
        ~(IsObj(ObjGet(base, k)) /\ IsObj(ObjGet(target, k)))}

\* C21: diff emits no entry for two values that are canonical-equal, also
\* when they are or hold arrays whose objects list their keys in another
\* order, and emits Changed only for values that differ canonically.
C21_DiffCanonicalEqual ==
    \A h1, h2 \in StoredHashes :
        \A d \in {Entries(diff(h1, h2).entries)} :
            \A p \in ObjectPairs(StateObj(Get(h1).state), StateObj(Get(h2).state), <<>>) :
                \A k \in WholeKeys(p[1], p[2]) :
                    (\E e \in d : e.path = Append(p[3], k))
                        <=> ~CanonEq(ObjGet(p[1], k), ObjGet(p[2], k))

\* Whether path p is a proper prefix of path q.
ProperPrefix(p, q) == Len(p) < Len(q) /\ SubSeq(q, 1, Len(p)) = p

\* C22: two arrays at the same path that differ at some position produce
\* exactly one entry at the array's path, a Changed entry holding the two
\* whole arrays, and no entry at a path below the array's.
C22_ArraysAsWholeValues ==
    \A h1, h2 \in StoredHashes :
        \A d \in {diff(h1, h2).entries} :
            \A p \in ObjectPairs(StateObj(Get(h1).state), StateObj(Get(h2).state), <<>>) :
                \A k \in WholeKeys(p[1], p[2]) :
                    LET bVal == ObjGet(p[1], k)
                        tVal == ObjGet(p[2], k)
                        at == Append(p[3], k)
                    IN  (IsArr(bVal) /\ IsArr(tVal)) =>
                            /\ ~CanonEq(bVal, tVal) =>
                                  /\ Cardinality({i \in 1..Len(d) : d[i].path = at}) = 1
                                  /\ DiffEntry(at, ChangeType.Changed,
                                               JsonStringify(bVal), JsonStringify(tVal))
                                        \in Entries(d)
                            /\ \A e \in Entries(d) : ~ProperPrefix(at, e.path)

\* Two stored commits hold [1, 2] and [1, 3] at world_state.tags, and their
\* diff reports the change.
C22_Witness ==
    \E h1, h2 \in StoredHashes :
        /\ ObjGet(Get(h1).state.world_state, "tags") = Arr(<< Num(1), Num(2) >>)
        /\ ObjGet(Get(h2).state.world_state, "tags") = Arr(<< Num(1), Num(3) >>)
        /\ \E e \in Entries(diff(h1, h2).entries) :
              e.path = <<"world_state", "tags">> /\ e.change_type = ChangeType.Changed

(***************************************************************************)
(* Round trip of a state through AgitClient.commit and getState            *)
(***************************************************************************)
\* C23: for every JSON value passed as memory, world_state or metadata to
\* AgitClient.commit, getState of the returned hash yields the same memory,
\* world_state and metadata, up to the order of object keys, and the same
\* cost (0 when none was given; {} for an omitted world_state).
C23_BlobRoundTrip ==
    [][\A o \in CommitInputs :
          Commit("a", o) =>
              LET st == normalizeState(GetIn(commits', pend'["a"].hash).state)
              IN  /\ CanonEq(st.memory, JsonNormal(o.memory))
                  /\ CanonEq(st.world_state,
                             IF IsUndef(o.world_state) THEN Obj(<<>>)
                             ELSE JsonNormal(o.world_state))
                  /\ CanonEq(st.metadata, JsonNormal(o.metadata))
                  /\ st.cost = Nullish(o.cost, Num(0))]_vars

(***************************************************************************)
(* Reads of commits that are not stored                                    *)
(***************************************************************************)
\* AgitClient.getState -> PureTsRepository.getState, as a call that settles
GetState(c, hash) ==
    /\ IF ~Has(hash)
       THEN Settle(c, "getState", "Object not found", NULL, Undef)
       ELSE Settle(c, "getState", NULL, NULL, getState(hash))
    /\ UNCHANGED <<commits, branches, headRef, detachedHash, currentBranch, now>>

\* AgitClient.diff -> PureTsRepository.diff, as a call that settles
Diff(c, hash1, hash2) ==
    /\ LET d == diff(hash1, hash2)
       IN  Settle(c, "diff", d.err, NULL, IF d.err = NULL THEN Arr(d.entries) ELSE Undef)
    /\ UNCHANGED <<commits, branches, headRef, detachedHash, currentBranch, now>>

HashInputs == StoredHashes \cup {Garbage}

\* The first stored hash, and one that is not stored.
FirstHashInputs == (IF commits # <<>> THEN {commits[1].hash} ELSE {}) \cup {Garbage}

\* One caller that commits, reverts and reads, with hashes that are
\* stored and one that is not.
NextReads ==
    \/ \E o \in CommitInputs : Commit("a", o)
    \/ \E toHash \in HashInputs : Revert("a", toHash)
    \/ \E hash \in HashInputs : GetState("a", hash)
    \/ \E hash1, hash2 \in FirstHashInputs : Diff("a", hash1, hash2)
    \/ Tick

SpecReads == Init /\ [][NextReads]_vars

\* A call that failed with a not-found error and left the repository as
\* it was.
NotFoundNoEffect ==
    /\ pend'["a"].err = "Object not found"
    /\ UNCHANGED <<commits, branches, headRef, detachedHash, currentBranch>>

\* C24: getState(h), revert(h) and diff(h1, h2) fail with a not-found
\* error whenever a given hash is not the hash of a stored commit, and the
\* failed call adds no commit and changes no branch ref, HEAD or current
\* branch.
C24_UnknownHashNotFound ==
    [][/\ \A h \in HashInputs \ StoredHashes :
             /\ Revert("a", h) => NotFoundNoEffect
             /\ GetState("a", h) => NotFoundNoEffect
       /\ \A h1, h2 \in FirstHashInputs :
             (Diff("a", h1, h2) /\ ({h1, h2} \ StoredHashes # {})) => NotFoundNoEffect]_vars

\* With commits stored, the caller's latest revert, getState or diff was
\* given an unknown hash and has failed.
C24_Witness ==
    /\ commits # <<>>
    /\ pend["a"].op \in {"revert", "getState", "diff"}
    /\ pend["a"].err = "Object not found"

(***************************************************************************)
(* Immutable commits, acyclic history                                      *)
(***************************************************************************)
\* C25: once a commit is stored under hash h, no later commit, branch,
\* checkout, merge or revert removes it or changes its parent_hashes,
\* message, action_type, timestamp or state; a step adds at most one
\* commit.
C25_CommitsImmutable ==
    [][/\ \A i \in 1..Len(commits) :
             /\ commits[i].hash \in {commits'[j].hash : j \in 1..Len(commits')}
             /\ GetIn(commits', commits[i].hash) = commits[i]
       /\ Len(commits') \in {Len(commits), Len(commits) + 1}]_vars

\* A revert and a merge have each added a commit on top of a commit that
\* is still stored.
C25_Witness ==
    /\ Len(commits) = 3
    /\ \E i, j \in 2..3 : /\ commits[i].action_type = ActionType.Rollback
                          /\ commits[j].action_type = ActionType.Merge
    /\ commits[1].action_type \notin {ActionType.Rollback, ActionType.Merge}

\* C26: in every reachable state each parent hash recorded in a stored
\* commit is the hash of a commit that was stored before the child and is
\* not newer than it (the clock counts milliseconds, so "older" is read as
\* "not newer"); hence no commit is its own ancestor.
C26_ParentsWrittenBefore ==
    \A i \in 1..Len(commits) :
        \A k \in 1..Len(commits[i].parent_hashes) :
            \E j \in 1..(i - 1) :
                /\ commits[j].hash = commits[i].parent_hashes[k]
                /\ commits[j].timestamp <= commits[i].timestamp

(***************************************************************************)
(* The effects of a commit                                                 *)
(***************************************************************************)
\* What a commit that returned hash h did to the references: the ref of
\* the current branch when HEAD is attached, every other ref unchanged, or
\* only the detached HEAD hash when it is detached.
OneRefUpdate(h) ==
    /\ IF currentBranch # NULL
       THEN /\ DOMAIN branches' = DOMAIN branches \cup {currentBranch}
            /\ branches'[currentBranch] = h
            /\ \A n \in DOMAIN branches \ {currentBranch} : branches'[n] = branches[n]
            /\ UNCHANGED detachedHash
       ELSE /\ detachedHash' = h
            /\ UNCHANGED branches
    /\ UNCHANGED <<currentBranch, headRef>>

\* C27 (as claimed): a successful commit has exactly these effects: one new
\* commit object, and one reference update.
C27_CommitOneObjectOneRef ==
    [][\A o \in CommitInputs :
          Commit("a", o) =>
              /\ Len(commits') = Len(commits) + 1
              /\ SubSeq(commits', 1, Len(commits)) = commits
              /\ commits'[Len(commits')].hash = pend'["a"].hash
              /\ pend'["a"].hash \notin StoredHashes
              /\ OneRefUpdate(pend'["a"].hash)]_vars

\* C27 (amended): a successful commit adds one commit object, or none when
\* a commit with the same state, parent, message, action type and timestamp
\* is already stored, which it then leaves as it is; and it makes one
\* reference update.
C27_CommitAtMostOneObjectOneRef ==
    [][\A o \in CommitInputs :
          Commit("a", o) =>
              /\ IF pend'["a"].hash \in StoredHashes
                 THEN commits' = commits
                 ELSE /\ Len(commits') = Len(commits) + 1
                      /\ SubSeq(commits', 1, Len(commits)) = commits
                      /\ commits'[Len(commits')].hash = pend'["a"].hash
              /\ OneRefUpdate(pend'["a"].hash)]_vars

\* A commit made at a detached HEAD has returned the hash of the commit
\* that main already pointed at, and HEAD is detached at that hash.
C27_Witness ==
    /\ pend["a"].op = "commit"
    /\ currentBranch = NULL
    /\ detachedHash = pend["a"].hash
    /\ "main" \in DOMAIN branches
    /\ branches["main"] = pend["a"].hash

(***************************************************************************)
(* The audit log of the native core (spec sections 3 and 4.9).  The        *)
(* repository writes are those of the repository above; what is appended   *)
(* to the log, and when, is taken from the specification.                  *)
(***************************************************************************)
\* prev_hash of the first entry
AuditSentinel == <<"genesis">>

\* self_hash = H(prev_hash || canonical(rest)): different inputs are taken
\* to give different hashes.
AuditHash(prev_hash, seq, action, commit_hash) == <<prev_hash, seq, action, commit_hash>>

\* Variant: every entry is chained to the sentinel instead of to its
\* predecessor.
AuditEntry_unchained(entries, action, commit_hash) ==
    [seq |-> Len(entries), prev_hash |-> AuditSentinel, action |-> action,
     commit_hash |-> commit_hash,
     self_hash |-> AuditHash(AuditSentinel, Len(entries), action, commit_hash)]

\* The entry that is appended after the given entries.
AuditEntry(entries, action, commit_hash) ==
    LET prev == IF entries = <<>> THEN AuditSentinel ELSE entries[Len(entries)].self_hash
    IN  [seq |-> Len(entries), prev_hash |-> prev, action |-> action,
         commit_hash |-> commit_hash,
         self_hash |-> AuditHash(prev, Len(entries), action, commit_hash)]

\* A mutating call settles with success and its entry is appended.
Journal(c, op, hash, state) ==
    /\ calls < MaxCalls
    /\ calls' = calls + 1
    /\ pend' = [pend EXCEPT ![c] = [op |-> op, err |-> NULL, hash |-> hash, state |-> state]]
    /\ auditLog' = Append(auditLog, AuditEntry(auditLog, op, hash))
    /\ UNCHANGED <<client, console, did>>

CoreCommit(c, o) ==
    /\ LET a == ClientCommitArgs(o)
           new == NewCommit(a.memory_json, a.world_state_json, a.message,
                            a.action_type, a.cost, a.metadata)
       IN  /\ Store(new)
           /\ Journal(c, "commit", new.hash, Undef)
    /\ UNCHANGED <<headRef, currentBranch, now>>

CoreBranch(c, name, from) ==
    /\ LET sourceHash == IF from # UNDEFINED
                         THEN (IF from \in DOMAIN branches THEN branches[from] ELSE from)
                         ELSE resolveHead
       IN  IF name \in DOMAIN branches
           THEN /\ Settle(c, "branch", "AlreadyExists", NULL, Undef)
                /\ UNCHANGED branches
           ELSE IF sourceHash = NULL \/ ~Has(sourceHash)
           THEN /\ Settle(c, "branch", "NotFound", NULL, Undef)
                /\ UNCHANGED branches
           ELSE /\ branches' = [n \in DOMAIN branches \cup {name} |->
                                   IF n = name THEN sourceHash ELSE branches[n]]
                /\ Journal(c, "branch", NULL, Undef)
    /\ UNCHANGED <<commits, headRef, detachedHash, currentBranch, now>>

CoreMerge(c, branch, strategy) ==
    /\ IF MergeError(branch) # NULL
       THEN /\ Settle(c, "merge", MergeError(branch), NULL, Undef)
            /\ UNCHANGED <<commits, branches, detachedHash>>
       ELSE /\ LET st == mergedState(branch, strategy)
                   new == NewCommit(JsonStringify(st.memory), JsonStringify(st.world_state),
                             <<"merge branch '", branch, "' into '",
                               IF currentBranch # NULL THEN currentBranch ELSE "HEAD", "'">>,
                             ActionType.Merge, st.cost, st.metadata)
               IN  /\ Store(new)
                   /\ Journal(c, "merge", new.hash, Undef)
    /\ UNCHANGED <<headRef, currentBranch, now>>

CoreRevert(c, toHash) ==
    /\ IF ~Has(toHash)
       THEN /\ Settle(c, "revert", "NotFound", NULL, Undef)
            /\ UNCHANGED <<commits, branches, detachedHash>>
       ELSE /\ LET st == Get(toHash).state
                   new == NewCommit(JsonStringify(st.memory), JsonStringify(st.world_state),
                             <<"revert to ", toHash>>,
                             ActionType.Rollback, st.cost, st.metadata)
               IN  /\ Store(new)
                   /\ Journal(c, "revert", new.hash, normalizeState(st))
    /\ UNCHANGED <<headRef, currentBranch, now>>

\* One caller of the native core: mutating calls that succeed and that
\* fail, and checkouts.
NextAudit ==
    \/ CoreCommit("a", MergeInput(V1, "one"))
    \/ \E from \in {UNDEFINED, Garbage} : CoreBranch("a", "feature", from)
    \/ \E branch \in {"feature", Garbage} : CoreMerge("a", branch, MergeStrategy.Ours)
    \/ \E toHash \in HashInputs : CoreRevert("a", toHash)
    \/ \E target \in {"main", "feature"} : Checkout("a", target)
    \/ Tick

SpecAudit == Init /\ [][NextAudit]_vars

\* verify_chain over the whole log
VerifyChain(entries) ==
    \A n \in 1..Len(entries) :
        /\ entries[n].seq = n - 1
        /\ entries[n].prev_hash = IF n = 1 THEN AuditSentinel ELSE entries[n - 1].self_hash
        /\ entries[n].self_hash =
              AuditHash(entries[n].prev_hash, entries[n].seq, entries[n].action, entries[n].commit_hash)

MutatingOps == {"commit", "merge", "revert", "branch"}

Chars(s) == [chars |-> s]

WhiteSpace == {" ", "\n"}

\* String.prototype.trim
RECURSIVE TrimStart(_)
TrimStart(s) == IF s # <<>> /\ Head(s) \in WhiteSpace THEN TrimStart(Tail(s)) ELSE s

RECURSIVE TrimEnd(_)
TrimEnd(s) ==
    IF s # <<>> /\ s[Len(s)] \in WhiteSpace THEN TrimEnd(SubSeq(s, 1, Len(s) - 1)) ELSE s

Trim(s) == TrimEnd(TrimStart(s))

\* String.prototype.toLowerCase, on the letters the inputs use
LowerChar(ch) ==
    CASE ch = "E" -> "e" [] ch = "N" -> "n" [] ch = "O" -> "o" [] ch = "R" -> "r"
      [] ch = "S" -> "s" [] ch = "T" -> "t" [] ch = "U" -> "u" [] ch = "Y" -> "y"
      [] OTHER -> ch

ToLowerCase(s) == [i \in 1..Len(s) |-> LowerChar(s[i])]

TruthyTexts == { <<"1">>, <<"t", "r", "u", "e">>, <<"y", "e", "s">>, <<"o", "n">> }

\* Variant: the raw text is compared as it is.
envFlag_exact(process, raw) ==
    IF ~process THEN FALSE
    ELSE IF IsUndef(raw) \/ raw.chars = <<>> THEN FALSE
    ELSE raw.chars \in TruthyTexts

\* envFlag(name), given whether process exists and what process.env holds
\* under the name
envFlag(process, raw) ==
    IF ~process THEN FALSE
    ELSE IF IsUndef(raw) \/ raw.chars = <<>> THEN FALSE
    ELSE ToLowerCase(Trim(raw.chars)) \in TruthyTexts

\* Variant: the fallback is taken whenever stubs are allowed, also when the
\* native module is there.
OpenResult_stubsFirst(cl) ==
    LET allowStubs == cl.forcePureTs = "true" \/ envFlag(cl.process, cl.env)
        usePureTs == cl.forcePureTs = "true" \/ allowStubs
    IN  IF usePureTs THEN [cl EXCEPT !.repo = "PureTsRepository"]
        ELSE IF ~cl.nativeModule
        THEN [cl EXCEPT !.err = "Native @agit/core module is required"]
        ELSE [cl EXCEPT !.repo = "JsRepository"]

\* AgitClient.open: what it selects, or that it throws
OpenResult(cl) ==
    LET allowStubs == cl.forcePureTs = "true" \/ envFlag(cl.process, cl.env)
        usePureTs == cl.forcePureTs = "true" \/ (~cl.nativeModule /\ allowStubs)
    IN  IF usePureTs THEN [cl EXCEPT !.repo = "PureTsRepository"]
        ELSE IF ~cl.nativeModule
        THEN [cl EXCEPT !.err = "Native @agit/core module is required"]
        ELSE [cl EXCEPT !.repo = "JsRepository"]

\* Values of AGIT_ALLOW_STUBS that the claim counts as truthy, and others.
TruthyEnv ==
    { Chars(<<"1">>), Chars(<<"t", "r", "u", "e">>), Chars(<<"y", "e", "s">>),
      Chars(<<"o", "n">>), Chars(<<"T", "R", "U", "E">>), Chars(<<" ", "o", "n", " ">>),
      Chars(<<"Y", "e", "s", "\n">>), Chars(<<" ", "1">>) }

FalsyEnv ==
    { Undef, Chars(<<>>), Chars(<<"0">>), Chars(<<"f", "a", "l", "s", "e">>),
      Chars(<<"n", "o">>), Chars(<<"o", "f", "f">>), Chars(<<"2">>), Chars(<<"y">>),
      Chars(<<"o", " ", "n">>), Chars(<<" ">>), Chars(<<"1", "1">>) }

OpenInputs ==
    [nativeModule : BOOLEAN, process : BOOLEAN, env : TruthyEnv \cup FalsyEnv,
     forcePureTs : {"true", "false", UNDEFINED}, repo : {NULL}, err : {NULL}]

\* No client yet: open is about to be called with one of the inputs.
InitOpen ==
    /\ commits = <<>>
    /\ branches = [n \in {} |-> NULL]
    /\ headRef = NULL
    /\ detachedHash = NULL
    /\ currentBranch = "main"
    /\ now = 0
    /\ pend = [c \in Callers |-> Idle]
    /\ calls = 0
    /\ auditLog = <<>>
    /\ console = <<>>
    /\ did = NULL
    /\ client \in OpenInputs

Open ==
    /\ client.repo = NULL /\ client.err = NULL
    /\ client' = OpenResult(client)
    /\ UNCHANGED <<commits, branches, headRef, detachedHash, currentBranch, now, pend,
                   calls, auditLog, console, did>>

NextOpen == Open

SpecOpen == InitOpen /\ [][NextOpen]_vars

\* Whether open has returned or thrown.
Opened == client.repo # NULL \/ client.err # NULL

\* C29: when the native module is unavailable, open throws unless
\* forcePureTs is true or AGIT_ALLOW_STUBS is set to a truthy value; the
\* in-memory fallback is selected only under forcePureTs, or when the
\* native module is missing and AGIT_ALLOW_STUBS is truthy; otherwise the
\* native repository is opened.
C29_OpenFailClosed ==
    Opened =>
        LET truthy == client.process /\ client.env \in TruthyEnv
            forced == client.forcePureTs = "true"
        IN  /\ (client.err # NULL) <=> (~client.nativeModule /\ ~forced /\ ~truthy)
            /\ (client.repo = "PureTsRepository") <=>
                  (forced \/ (~client.nativeModule /\ truthy))
            /\ (client.repo = "JsRepository") <=> (client.nativeModule /\ ~forced)
            /\ (client.err # NULL) <=> (client.repo = NULL)

\* open has thrown for a missing native module with AGIT_ALLOW_STUBS set
\* to a value that is not truthy.
C29_Witness ==
    /\ client.err # NULL
    /\ ~client.nativeModule
    /\ client.process
    /\ client.env = Chars(<<"0">>)

(***************************************************************************)
(* AgitCheckpointSaver (LangGraph integration)                             *)
(***************************************************************************)
\* config.configurable?.thread_id, or nothing
ThreadInputs == {"t1", "t2", UNDEFINED}

getThreadId(config) == IF config = UNDEFINED THEN "default" ELSE config

\* `langgraph/${threadId}`
SaverBranch(threadId) ==
    CASE threadId = "t1" -> "langgraph/t1"
      [] threadId = "t2" -> "langgraph/t2"
      [] OTHER -> "langgraph/default"

CheckpointInputs ==
    { [v |-> 1, id |-> "c1", channel_values |-> V1],
      [v |-> 1, id |-> "c2", channel_values |-> V2] }

\* The CommitOptions put hands to AgitClient.commit (metadata = {}).
PutCommit(checkpoint) ==
    [memory |-> checkpoint.channel_values,
     world_state |-> Obj(<< <<"checkpoint_id", Str([raw |-> checkpoint.id])>>,
                            <<"metadata", Obj(<<>>)>> >>),
     message |-> <<"checkpoint ", checkpoint.id, " (step ?)">>,
     action_type |-> ActionType.Checkpoint, cost |-> Undef, metadata |-> Undef]

\* AgitCheckpointSaver.put: status, branch (its rejection is swallowed) and
\* commit, one after the other
Put(c, config, checkpoint) ==
    /\ LET branchName == SaverBranch(getThreadId(config))
           sourceHash == resolveHead
           created == IF branchName \in DOMAIN branches \/ sourceHash = NULL
                      THEN branches
                      ELSE [n \in DOMAIN branches \cup {branchName} |->
                               IF n = branchName THEN sourceHash ELSE branches[n]]
           a == ClientCommitArgs(PutCommit(checkpoint))
           new == NewCommit(a.memory_json, a.world_state_json, a.message,
                            a.action_type, a.cost, a.metadata)
       IN  /\ commits' = MapSet(new)
           /\ IF currentBranch # NULL
              THEN /\ branches' = [n \in DOMAIN created \cup {currentBranch} |->
                                      IF n = currentBranch THEN new.hash ELSE created[n]]
                   /\ UNCHANGED detachedHash
              ELSE /\ detachedHash' = new.hash
                   /\ branches' = created
    /\ Settle(c, "put", NULL, NULL, Undef)
    /\ UNCHANGED <<headRef, currentBranch, now>>

\* AgitCheckpointSaver.get: the tuple, or null
SaverGet(config) ==
    LET found == log(SaverBranch(getThreadId(config)), Num(1))
    IN  IF found = <<>> THEN Null
        ELSE [config |-> config,
              checkpoint |-> [v |-> 1, id |-> found[1].hash, ts |-> found[1].timestamp,
                              channel_values |-> getState(found[1].hash).memory],
              metadata |-> LET ws == getState(found[1].hash).world_state
                           IN  IF IsObj(ws) THEN Nullish(ObjGet(ws, "metadata"), Obj(<<>>))
                               ELSE Obj(<<>>)]

\* get, as a call that settles
SaverGetCall(c, config) ==
    /\ Settle(c, "get", NULL, NULL, SaverGet(config))
    /\ UNCHANGED <<commits, branches, headRef, detachedHash, currentBranch, now>>

\* One caller that puts and gets checkpoints of three threads.
NextSaver ==
    \/ \E config \in ThreadInputs, checkpoint \in CheckpointInputs :
          Put("a", config, checkpoint)
    \/ \E config \in ThreadInputs : SaverGetCall("a", config)
    \/ Tick

SpecSaver == Init /\ [][NextSaver]_vars

\* C30: after put(config, checkpoint) completes, get(config) with the same
\* thread_id returns a tuple, never null, whose checkpoint.channel_values
\* are those of the checkpoint just put.
C30_GetReturnsLatestPut ==
    [][\A config \in ThreadInputs, checkpoint \in CheckpointInputs :
          Put("a", config, checkpoint) =>
              /\ SaverGet(config)' # Null
              /\ SaverGet(config)'.checkpoint.channel_values = checkpoint.channel_values]_vars

\* AgitCheckpointSaver.list: the tuples of the thread's history
SaverList(config, limit) ==
    LET found == log(SaverBranch(getThreadId(config)), Nullish(limit, Num(10)))
    IN  [i \in 1..Len(found) |->
            [config |-> config,
             checkpoint |-> [v |-> 1, id |-> found[i].hash, ts |-> found[i].timestamp,
                             channel_values |-> getState(found[i].hash).memory],
             metadata |-> LET ws == getState(found[i].hash).world_state
                          IN  IF IsObj(ws) THEN Nullish(ObjGet(ws, "metadata"), Obj(<<>>))
                              ELSE Obj(<<>>)]]

\* list, as a call that settles
SaverListCall(c, config, limit) ==
    /\ Settle(c, "list", NULL, NULL, Arr(SaverList(config, limit)))
    /\ UNCHANGED <<commits, branches, headRef, detachedHash, currentBranch, now>>

\* Checkpoints with ids of their own, each put under one thread only.
ThreadPuts ==
    { <<"t1", [v |-> 1, id |-> "a1", channel_values |-> V1]>>,
      <<"t1", [v |-> 1, id |-> "a2", channel_values |-> V2]>>,
      <<"t2", [v |-> 1, id |-> "b1", channel_values |-> V1]>>,
      <<"t2", [v |-> 1, id |-> "b2", channel_values |-> V2]>> }

\* The thread a checkpoint id was put under.
PutUnder(id) == (CHOOSE p \in ThreadPuts : p[2].id = id)[1]

\* One caller that puts checkpoints of two threads, in any order, and
\* reads them back.
NextThreads ==
    \/ \E p \in ThreadPuts : Put("a", p[1], p[2])
    \/ \E config \in {"t1", "t2"} : SaverGetCall("a", config)
    \/ \E config \in {"t1", "t2"}, limit \in {Undef, Num(1)} : SaverListCall("a", config, limit)
    \/ Tick

SpecThreads == Init /\ [][NextThreads]_vars

\* The id of the checkpoint that a returned tuple was committed with.
CheckpointIdOf(tuple) == ObjGet(Get(tuple.checkpoint.id).state.world_state, "checkpoint_id").str.raw

\* C31: list(config) and get(config) for one thread never return a
\* checkpoint that was put under another thread_id, whatever the order of
\* the puts.
C31_ThreadIsolation ==
    \A config \in {"t1", "t2"} :
        /\ SaverGet(config) # Null => PutUnder(CheckpointIdOf(SaverGet(config))) = config
        /\ \A i \in 1..Len(SaverList(config, Undef)) :
              PutUnder(CheckpointIdOf(SaverList(config, Undef)[i])) = config

(***************************************************************************)
(* AgitA2AHooks (A2A integration)                                          *)
(***************************************************************************)
\* message.contextId, or nothing
ContextInputs == {"x1", "x2", UNDEFINED}

\* A2A messages of one text part each.
A2AMessages == [contextId : ContextInputs, text : {"hello", "bye"}]

\* `a2a/${message.contextId}`
A2ABranch(contextId) == IF contextId = "x1" THEN "a2a/x1" ELSE "a2a/x2"

\* A string-valued member that may be undefined
StrOrUndef(s) == IF s = UNDEFINED THEN Undef ELSE Str([raw |-> s])

serializeMessage(msg) ==
    Obj(<< <<"role", Str([raw |-> "user"])>>,
           <<"parts", Arr(<< Obj(<< <<"kind", Str([raw |-> "text"])>>,
                                    <<"text", Str([raw |-> msg.text])>> >>) >>)>>,
           <<"messageId", Undef>>,
           <<"contextId", StrOrUndef(msg.contextId)>>,
           <<"taskId", Undef>> >>)

\* The CommitOptions onMessageSend hands to AgitClient.commit.
SendCommit(message) ==
    [memory |-> Obj(<< <<"a2a_message", serializeMessage(message)>> >>),
     world_state |-> Obj(<< <<"a2a_context_id", StrOrUndef(message.contextId)>>,
                            <<"a2a_task_id", Undef>>,
                            <<"a2a_phase", Str([raw |-> "send"])>> >>),
     message |-> <<"a2a-send: ", message.text>>,
     action_type |-> ActionType.ToolCall, cost |-> Undef, metadata |-> Undef]

\* The branches after ensureBranch(name): status, then branch when the name
\* is not listed; a rejection of branch is swallowed.
ensureBranch(name) ==
    IF name \in DOMAIN branches \/ resolveHead = NULL
    THEN branches
    ELSE [n \in DOMAIN branches \cup {name} |->
             IF n = name THEN resolveHead ELSE branches[n]]

\* The commit onMessageSend stores.
SentCommit(message) ==
    LET a == ClientCommitArgs(SendCommit(message))
    IN  NewCommit(a.memory_json, a.world_state_json, a.message, a.action_type,
                  a.cost, a.metadata)

\* AgitA2AHooks.onMessageSend with branchPerContext left at its default:
\* ensureBranch, then commit
OnMessageSend(c, message) ==
    /\ LET ensured == IF message.contextId # UNDEFINED
                      THEN ensureBranch(A2ABranch(message.contextId))
                      ELSE branches
           new == SentCommit(message)
       IN  /\ commits' = MapSet(new)
           /\ IF currentBranch # NULL
              THEN /\ branches' = [n \in DOMAIN ensured \cup {currentBranch} |->
                                      IF n = currentBranch THEN new.hash ELSE ensured[n]]
                   /\ UNCHANGED detachedHash
              ELSE /\ detachedHash' = new.hash
                   /\ branches' = ensured
    /\ Settle(c, "onMessageSend", NULL, NULL, Undef)
    /\ UNCHANGED <<headRef, currentBranch, now>>

\* One caller that sends messages of two contexts, and of none.
NextA2A ==
    \/ \E message \in A2AMessages : OnMessageSend("a", message)
    \/ Tick

SpecA2A == Init /\ [][NextA2A]_vars

\* C32: with branchPerContext enabled, after onMessageSend(message) for a
\* message with contextId c, the commit recording that message is the tip
\* of branch a2a/<c>, and it is the tip of no other context's branch.
C32_BranchPerContext ==
    [][\A message \in A2AMessages :
          (message.contextId # UNDEFINED /\ OnMessageSend("a", message)) =>
              /\ A2ABranch(message.contextId) \in DOMAIN branches'
              /\ branches'[A2ABranch(message.contextId)] = SentCommit(message).hash
              /\ \A d \in ContextInputs \ {UNDEFINED, message.contextId} :
                    A2ABranch(d) \in DOMAIN branches' =>
                        branches'[A2ABranch(d)] # SentCommit(message).hash]_vars

(***************************************************************************)
(* createAgitMiddleware (Vercel AI SDK integration)                        *)
(***************************************************************************)
\* What doGenerate resolves with.
GenerateResults ==
    { [text |-> "hi", finishReason |-> "stop", totalTokens |-> Num(3)],
      [text |-> UNDEFINED, finishReason |-> UNDEFINED, totalTokens |-> Undef] }

\* The steps of the commit that may throw: the caller's callbacks, and
\* client.commit (JSON.stringify of a memory that cannot be serialised, or
\* a repository that rejects).
ThrowingSteps == {"extractMemory", "buildMessage", "commit"}

\* One call of wrapGenerate: whether doGenerate resolves and with what,
\* what the shouldCommit predicate does, and which step throws, if any.
GenerateInputs ==
    [resolves : BOOLEAN, result : GenerateResults,
     shouldCommit : {"true", "false", "throws"},
     throws : ThrowingSteps \cup {NULL}]

\* The result as the value the promise resolves with.
ResultValue(result) ==
    Obj(<< <<"text", StrOrUndef(result.text)>>,
           <<"finishReason", StrOrUndef(result.finishReason)>>,
           <<"usage", IF IsUndef(result.totalTokens) THEN Undef
                      ELSE Obj(<< <<"totalTokens", result.totalTokens>> >>)>> >>)

\* totalTokens * 0.000001
TokenCost(totalTokens) == Num([millionths |-> totalTokens])

\* The CommitOptions wrapGenerate hands to AgitClient.commit, with the
\* default extractMemory, extractWorldState and buildMessage.
GenerateCommit(result) ==
    [memory |-> Obj(<< <<"messages", Undef>>, <<"system", Undef>>,
                       <<"prompt", Str([raw |-> "p"])>> >>),
     world_state |-> Obj(<<>>),
     message |-> <<"llm_response: finish=",
                   IF result.finishReason = UNDEFINED THEN "unknown" ELSE result.finishReason,
                   IF IsUndef(result.totalTokens) THEN "" ELSE ", tokens=3">>,
     action_type |-> ActionType.LlmResponse,
     cost |-> TokenCost(Nullish(result.totalTokens, Num(0)).num),
     metadata |-> Obj(SelectSeq(<< <<"usage", ObjGet(ResultValue(result), "usage")>>,
                                   <<"finish_reason", StrOrUndef(result.finishReason)>>,
                                   <<"text_preview", StrOrUndef(result.text)>> >>,
                                LAMBDA p : ~IsUndef(p[2])))]

\* The line the catch block writes.
CommitFailed(err) == [warn |-> "[agit] commit failed:", err |-> err]

\* Variant: what the commit throws is not caught.
WrapGenerate_noCatch(c, in) ==
    /\ calls < MaxCalls
    /\ calls' = calls + 1
    /\ IF ~in.resolves
       THEN /\ pend' = [pend EXCEPT ![c] = [op |-> "wrapGenerate", err |-> "doGenerate rejected",
                                            hash |-> NULL, state |-> Undef]]
            /\ UNCHANGED <<commits, branches, detachedHash, console>>
       ELSE IF in.shouldCommit = "throws"
       THEN /\ pend' = [pend EXCEPT ![c] = [op |-> "wrapGenerate", err |-> "shouldCommit threw",
                                            hash |-> NULL, state |-> Undef]]
            /\ UNCHANGED <<commits, branches, detachedHash, console>>
       ELSE /\ IF in.shouldCommit = "true" /\ in.throws = NULL
               THEN /\ LET a == ClientCommitArgs(GenerateCommit(in.result))
                       IN  Store(NewCommit(a.memory_json, a.world_state_json, a.message,
                                           a.action_type, a.cost, a.metadata))
                    /\ UNCHANGED console
               ELSE UNCHANGED <<commits, branches, detachedHash, console>>
            /\ pend' = [pend EXCEPT ![c] =
                           IF in.shouldCommit = "true" /\ in.throws # NULL
                           THEN [op |-> "wrapGenerate", err |-> in.throws,
                                 hash |-> NULL, state |-> Undef]
                           ELSE [op |-> "wrapGenerate", err |-> NULL, hash |-> NULL,
                                 state |-> ResultValue(in.result)]]
    /\ UNCHANGED <<headRef, currentBranch, now, auditLog, client, did>>

\* wrapGenerate: await doGenerate, ask shouldCommit, and commit inside a
\* try whose catch only warns; then return the result
WrapGenerate(c, in) ==
    /\ calls < MaxCalls
    /\ calls' = calls + 1
    /\ IF ~in.resolves
       THEN /\ pend' = [pend EXCEPT ![c] = [op |-> "wrapGenerate", err |-> "doGenerate rejected",
                                            hash |-> NULL, state |-> Undef]]
            /\ UNCHANGED <<commits, branches, detachedHash, console>>
       ELSE IF in.shouldCommit = "throws"
       THEN /\ pend' = [pend EXCEPT ![c] = [op |-> "wrapGenerate", err |-> "shouldCommit threw",
                                            hash |-> NULL, state |-> Undef]]
            /\ UNCHANGED <<commits, branches, detachedHash, console>>
       ELSE /\ IF in.shouldCommit = "true" /\ in.throws = NULL
               THEN /\ LET a == ClientCommitArgs(GenerateCommit(in.result))
                       IN  Store(NewCommit(a.memory_json, a.world_state_json, a.message,
                                           a.action_type, a.cost, a.metadata))
                    /\ UNCHANGED console
               ELSE IF in.shouldCommit = "true"
               THEN /\ console' = Append(console, CommitFailed(in.throws))
                    /\ UNCHANGED <<commits, branches, detachedHash>>
               ELSE UNCHANGED <<commits, branches, detachedHash, console>>
            /\ pend' = [pend EXCEPT ![c] = [op |-> "wrapGenerate", err |-> NULL, hash |-> NULL,
                                            state |-> ResultValue(in.result)]]
    /\ UNCHANGED <<headRef, currentBranch, now, auditLog, client, did>>

\* One caller whose generations go through the middleware.
NextMiddleware ==
    \/ \E in \in GenerateInputs : WrapGenerate("a", in)
    \/ Tick

SpecMiddleware == Init /\ [][NextMiddleware]_vars

DidInputs == {"did:a", UNDEFINED}
CreatedDid == "did:new"

\* States handed to signedCommit: without and with a world_state member.
S1 == Obj(<< <<"task", Str([raw |-> "x"])>> >>)
S2 == Obj(<< <<"task", Str([raw |-> "y"])>>,
             <<"world_state", Obj(<< <<"w", Num(1)>> >>)>> >>)
FidesStates == {S1, S2}

\* new Date().toISOString()
IsoString(t) == Str([iso |-> t])

\* The Signature header fides.signRequest puts on the request for
\* agit://commit/<did> with the state's JSON text as body: a value that
\* depends on the signer and on what was signed.
signRequest(d, state) == Str([signature |-> <<d, JsonStringify(state)>>])

\* { ...state, _fides: {...} }
enrichedState(d, state) ==
    Obj(SelectSeq(state.obj, LAMBDA p : p[1] # "_fides") \o
        << <<"_fides", Obj(<< <<"did", Str([raw |-> d])>>,
                              <<"signature", signRequest(d, state)>>,
                              <<"algorithm", Str([raw |-> "ed25519"])>>,
                              <<"signed_at", IsoString(now)>> >>)>> >>)

\* The CommitOptions init hands to AgitClient.commit.
InitCommit(d) ==
    [memory |-> Obj(<< <<"fides_identity", Obj(<< <<"did", Str([raw |-> d])>>,
                                                  <<"initialized_at", IsoString(now)>> >>)>> >>),
     world_state |-> Obj(<< <<"fides_phase", Str([raw |-> "identity_init"])>> >>),
     message |-> <<"fides-init: ", d>>,
     action_type |-> ActionType.SystemEvent, cost |-> Undef, metadata |-> Undef]

\* AgitFidesClient.init
FidesInit(c, existingDid) ==
    /\ LET d == IF existingDid # UNDEFINED THEN existingDid ELSE CreatedDid
           a == ClientCommitArgs(InitCommit(d))
       IN  /\ did' = d
           /\ Store(NewCommit(a.memory_json, a.world_state_json, a.message, a.action_type,
                              a.cost, a.metadata))
           /\ calls < MaxCalls
           /\ calls' = calls + 1
           /\ pend' = [pend EXCEPT ![c] = [op |-> "init", err |-> NULL, hash |-> NULL,
                                           state |-> Str([raw |-> d])]]
    /\ UNCHANGED <<headRef, currentBranch, now, auditLog, client, console>>

\* The CommitOptions signedCommit hands to AgitClient.commit.
SignedCommitOptions(d, state, message, actionType) ==
    [memory |-> enrichedState(d, state),
     world_state |-> ObjGet(state, "world_state"),
     message |-> <<"[", d, "...] ", message>>,
     action_type |-> actionType, cost |-> Undef, metadata |-> Undef]

\* The commit signedCommit stores.
SignedCommitted(d, state, message, actionType) ==
    LET a == ClientCommitArgs(SignedCommitOptions(d, state, message, actionType))
    IN  NewCommit(a.memory_json, a.world_state_json, a.message, a.action_type,
                  a.cost, a.metadata)

\* (commitResult as any)?.hash: the property hash of what AgitClient.commit
\* resolved with; a string has no such property.
HashProperty(commitResult) ==
    IF commitResult \in STRING THEN UNDEFINED ELSE commitResult.hash

\* The SignedCommit that signedCommit returns.
SignedCommitResult(d, state, commitResult) ==
    [hash |-> IF HashProperty(commitResult) = UNDEFINED THEN "unknown"
              ELSE HashProperty(commitResult),
     did |-> d,
     signature |-> signRequest(d, state)]

\* AgitFidesClient.signedCommit
SignedCommit(c, state, message, actionType) ==
    /\ IF did = NULL
       THEN /\ Settle(c, "signedCommit", "Fides identity not initialized. Call init() first.",
                      NULL, Undef)
            /\ UNCHANGED <<commits, branches, detachedHash>>
       ELSE /\ LET new == SignedCommitted(did, state, message, actionType)
               IN  /\ Store(new)
                   /\ Settle(c, "signedCommit", NULL, NULL,
                             SignedCommitResult(did, state, new.hash))
    /\ UNCHANGED <<headRef, currentBranch, now>>

\* (state as any)?._fides, for the AgentState that getState resolved with
FidesData(state) == IF "_fides" \in DOMAIN state THEN state._fides ELSE Undef

\* fidesData?.did and fidesData?.signature
FidesMember(fidesData, key) ==
    IF IsObj(fidesData) THEN ObjGet(fidesData, key) ELSE Undef

\* What verifyCommit resolves with; resolves and accepts are what
\* fides.resolve and fides.verifyRequest answer.
verifyCommit(commitHash, resolves, accepts) ==
    IF ~Has(commitHash)
    THEN [valid |-> FALSE, did |-> Undef, error |-> "Error: Object not found"]
    ELSE LET fidesData == FidesData(getState(commitHash))
         IN  IF IsUndef(FidesMember(fidesData, "did"))
                \/ IsUndef(FidesMember(fidesData, "signature"))
             THEN [valid |-> FALSE, did |-> Undef, error |-> "Commit has no fides signature"]
             ELSE IF ~resolves
             THEN [valid |-> FALSE, did |-> Undef, error |-> "Could not resolve DID"]
             ELSE [valid |-> accepts, did |-> FidesMember(fidesData, "did"),
                   error |-> IF accepts THEN UNDEFINED ELSE "rejected"]

\* verifyCommit, as a call that settles
VerifyCommitCall(c, commitHash, resolves, accepts) ==
    /\ Settle(c, "verifyCommit", NULL, NULL, verifyCommit(commitHash, resolves, accepts))
    /\ UNCHANGED <<commits, branches, headRef, detachedHash, currentBranch, now>>

\* Whether a stored commit was made by signedCommit: its memory carries
\* the _fides member.
IsSigned(commit) ==
    IsObj(commit.state.memory) /\ HasKey(commit.state.memory, "_fides")

\* C34: for a commit created by signedCommit, verifyCommit of that commit's
\* hash finds the embedded Fides identity and returns valid = true with
\* the signer's DID whenever the DID resolves and the verifier accepts
\* the reconstructed request.
C34_SignVerifyRoundTrip ==
    \A i \in 1..Len(commits) :
        IsSigned(commits[i]) =>
            LET result == verifyCommit(commits[i].hash, TRUE, TRUE)
            IN  /\ result.valid
                /\ result.did = ObjGet(ObjGet(commits[i].state.memory, "_fides"), "did")

\* fides.getReputation(did).score, in thousandths
ScoreInputs == {495, 604}
MinTrustInputs == {50, 60}

\* Math.round(score * 100), for a score given in thousandths
TrustLevel(score) == (score + 5) \div 10

\* The CommitOptions of the audit event that trustedMerge commits.
GateCommit(action, branch, committerDid, trustLevel, minTrustLevel) ==
    [memory |-> Obj(<< <<"trust_gate",
                         Obj(<< <<"action", Str([raw |-> action])>>,
                                <<"branch", Str([raw |-> branch])>>,
                                <<"committer_did", committerDid>>,
                                <<"trust_level", Num(trustLevel)>>,
                                <<"required_level", Num(minTrustLevel)>> >>)>> >>),
     world_state |-> Undef,
     message |-> <<"fides-gate: ", action, trustLevel, minTrustLevel>>,
     action_type |-> ActionType.SystemEvent, cost |-> Undef, metadata |-> Undef]

\* The commit PureTsRepository.commit builds from the arguments a when the
\* map holds cs and HEAD resolves to head.
CommitOnto(cs, head, a) ==
    LET body == [parent_hashes |-> <<head>>,
                 message |-> a.message,
                 author |-> "default",
                 timestamp |-> now,
                 action_type |-> a.action_type,
                 state |-> [memory |-> parseJsonValue(a.memory_json),
                            world_state |-> Nullish(parseJsonValue(a.world_state_json), Obj(<<>>)),
                            timestamp |-> now,
                            cost |-> Nullish(a.cost, Num(0)),
                            metadata |-> parseJsonValue(a.metadata)]]
        same == {i \in 1..Len(cs) : Identity(cs[i]) = Identity(body)}
    IN  [hash |-> IF same # {} THEN cs[CHOOSE i \in same : TRUE].hash
                  ELSE HashNames[Len(cs) + 1]] @@ body

\* What trustedMerge resolves with
GateResult(merged, reason, trustLevel) ==
    [merged |-> merged, reason |-> reason, trustLevel |-> trustLevel]

\* AgitFidesClient.trustedMerge: the tip of the branch, its committer's
\* DID, the reputation check, then either the rejection event or the merge
\* followed by the approval event; score is what fides.getReputation gives.
TrustedMerge(c, branch, minTrustLevel, score) ==
    /\ LET found == log(branch, Num(1))
           committerDid == IF found = <<>> \/ ~Has(found[1].hash) THEN Undef
                           ELSE FidesMember(FidesData(getState(found[1].hash)), "did")
           trustLevel == TrustLevel(score)
           rejected == ClientCommitArgs(GateCommit("merge_rejected", branch, committerDid,
                                                   trustLevel, minTrustLevel))
           approved == ClientCommitArgs(GateCommit("merge_approved", branch, committerDid,
                                                   trustLevel, minTrustLevel))
       IN  IF did = NULL
           THEN /\ Settle(c, "trustedMerge", "Fides identity not initialized.", NULL, Undef)
                /\ UNCHANGED <<commits, branches, detachedHash>>
           ELSE IF found = <<>>
           THEN /\ Settle(c, "trustedMerge", NULL, NULL,
                          GateResult(FALSE, "Branch has no commits", UNDEFINED))
                /\ UNCHANGED <<commits, branches, detachedHash>>
           ELSE IF ~Has(found[1].hash)
           THEN /\ Settle(c, "trustedMerge", "Object not found", NULL, Undef)
                /\ UNCHANGED <<commits, branches, detachedHash>>
           ELSE IF IsUndef(committerDid)
           THEN /\ Settle(c, "trustedMerge", NULL, NULL,
                          GateResult(FALSE, "Branch head has no fides identity", UNDEFINED))
                /\ UNCHANGED <<commits, branches, detachedHash>>
           ELSE IF trustLevel < minTrustLevel
           THEN /\ Store(NewCommit(rejected.memory_json, rejected.world_state_json,
                                   rejected.message, rejected.action_type, rejected.cost,
                                   rejected.metadata))
                /\ Settle(c, "trustedMerge", NULL, NULL,
                          GateResult(FALSE, "Insufficient trust", trustLevel))
           ELSE IF MergeError(branch) # NULL
           THEN /\ Settle(c, "trustedMerge", NULL, NULL,
                          GateResult(FALSE, "Trust check failed", UNDEFINED))
                /\ UNCHANGED <<commits, branches, detachedHash>>
           ELSE LET st == mergedState(branch, "three-way")
                    m == NewCommit(JsonStringify(st.memory), JsonStringify(st.world_state),
                             <<"merge branch '", branch, "' into '",
                               IF currentBranch # NULL THEN currentBranch ELSE "HEAD", "'">>,
                             ActionType.Merge, st.cost, st.metadata)
                    event == CommitOnto(MapSet(m), m.hash, approved)
                    stored == MapSet(m)
                IN  /\ commits' = IF \E i \in 1..Len(stored) : stored[i].hash = event.hash
                                  THEN [i \in 1..Len(stored) |->
                                           IF stored[i].hash = event.hash THEN event
                                           ELSE stored[i]]
                                  ELSE Append(stored, event)
                    /\ IF currentBranch # NULL
                       THEN /\ branches' = [n \in DOMAIN branches \cup {currentBranch} |->
                                               IF n = currentBranch THEN event.hash
                                               ELSE branches[n]]
                            /\ UNCHANGED detachedHash
                       ELSE /\ detachedHash' = event.hash
                            /\ UNCHANGED branches
                    /\ Settle(c, "trustedMerge", NULL, NULL,
                              GateResult(TRUE, UNDEFINED, trustLevel))
    /\ UNCHANGED <<headRef, currentBranch, now>>

\* One agent that initialises its identity, signs commits, branches,
\* verifies and merges through the trust gate.
NextFides ==
    \/ \E existingDid \in DidInputs : FidesInit("a", existingDid)
    \/ \E state \in FidesStates :
          SignedCommit("a", state, "checkpoint after tool call", ActionType.Checkpoint)
    \/ Branch("a", "feature", UNDEFINED)
    \/ \E commitHash \in FirstHashInputs \cup {h \in StoredHashes : IsSigned(Get(h))},
          resolves \in BOOLEAN, accepts \in BOOLEAN :
          VerifyCommitCall("a", commitHash, resolves, accepts)
    \/ \E minTrustLevel \in MinTrustInputs, score \in ScoreInputs :
          TrustedMerge("a", "feature", minTrustLevel, score)
    \/ Tick

SpecFides == Init /\ [][NextFides]_vars

\* C35: signedCommit returns a SignedCommit whose hash field is the hash of
\* the commit it just created, the value AgitClient.commit returned, so
\* that getState finds the commit under the returned hash.
C35_SignedCommitReturnsHash ==
    [][\A state \in FidesStates :
          (did # NULL /\ SignedCommit("a", state, "checkpoint after tool call",
                                      ActionType.Checkpoint)) =>
              /\ pend'["a"].state.hash =
                    SignedCommitted(did, state, "checkpoint after tool call",
                                    ActionType.Checkpoint).hash
              /\ pend'["a"].state.hash \in StoredHashes']_vars

\* Whether the tip of a branch was committed by signedCommit.
TipSigned(branch) ==
    /\ branch \in DOMAIN branches
    /\ Has(branches[branch])
    /\ IsSigned(Get(branches[branch]))

\* C36: trustedMerge(branch, {minTrustLevel}) merges and returns
\* merged = true exactly when the tip of the branch was committed by
\* signedCommit and the committer's trust level round(score * 100) is at
\* least minTrustLevel; below the threshold no merge commit is created and
\* merged = false.
C36_TrustGate ==
    [][\A minTrustLevel \in MinTrustInputs, score \in ScoreInputs :
          (did # NULL /\ TrustedMerge("a", "feature", minTrustLevel, score)) =>
              /\ pend'["a"].err = NULL
              /\ pend'["a"].state.merged <=>
                    (TipSigned("feature") /\ TrustLevel(score) >= minTrustLevel)
              /\ pend'["a"].state.merged <=>
                    \E i \in 1..Len(commits') :
                        /\ commits'[i].action_type = ActionType.Merge
                        /\ commits'[i].hash \notin StoredHashes
              /\ TrustLevel(score) < minTrustLevel =>
                    /\ ~pend'["a"].state.merged
                    /\ \A i \in 1..Len(commits') :
                          commits'[i].action_type = ActionType.Merge =>
                              commits'[i].hash \in StoredHashes]_vars

(***************************************************************************)
(* HEAD and the references                                                 *)
(***************************************************************************)
\* C37: in every reachable state HEAD is in exactly one mode: either
\* current_branch is a branch name and no detached hash is held, or
\* current_branch is null and the detached hash is the hash of a stored
\* commit; status().head is the attached branch's ref (null when that
\* branch has no ref) in the first mode and the detached hash in the
\* second.
C37_HeadModes ==
    \/ /\ status.current_branch # NULL
       /\ detachedHash = NULL
       /\ status.head = Ref(status.current_branch)
    \/ /\ status.current_branch = NULL
       /\ detachedHash # NULL
       /\ Has(detachedHash)
       /\ status.head = detachedHash

\* HEAD was detached, a commit was made on it, and a branch was checked
\* out again.
C37_Witness ==
    /\ pend["a"].op = "checkout"
    /\ pend["a"].err = NULL
    /\ status.current_branch # NULL
    /\ \E i \in 1..Len(commits) :
          /\ commits[i].hash \notin {branches[n] : n \in DOMAIN branches}
          /\ \A j \in 1..Len(commits) : commits[i].hash \notin ParentsIn(commits, commits[j].hash)

\* C38: in every reachable state every branch that status().branches
\* lists points at a commit that exists in the store, and status().head,
\* when it is not null, is the hash of a stored commit.
C38_RefIntegrity ==
    /\ \A name \in status.branches : Has(branches[name])
    /\ status.head # NULL => Has(status.head)

\* C39: whenever checkout(target) fails, the repository is left as it was
\* before the call: status() (head, current_branch, branches) is unchanged
\* and a following commit gets the parent it would have had without the
\* failed checkout.
C39_FailedCheckoutNoEffect ==
    [][\A target \in RefInputs :
          (Checkout("a", target) /\ pend'["a"].err # NULL) =>
              /\ status' = status
              /\ branches' = branches
              /\ resolveHead' = resolveHead
              /\ commits' = commits]_vars

\* AgitClient.log -> PureTsRepository.log, as a call that settles
Log(c, branch, limit) ==
    /\ Settle(c, "log", NULL, NULL, Arr(log(branch, limit)))
    /\ UNCHANGED <<commits, branches, headRef, detachedHash, currentBranch, now>>

\* AgitClient.status, as a call that settles
Status(c) ==
    /\ Settle(c, "status", NULL, NULL, status)
    /\ UNCHANGED <<commits, branches, headRef, detachedHash, currentBranch, now>>

\* One caller that commits, branches, checks out and reads.
NextFrame ==
    \/ Commit("a", MergeInput(V1, "one"))
    \/ Branch("a", "feature", UNDEFINED)
    \/ \E target \in {"main", "feature"} \cup FirstHashInputs : Checkout("a", target)
    \/ \E hash \in FirstHashInputs : GetState("a", hash)
    \/ \E hash1, hash2 \in FirstHashInputs : Diff("a", hash1, hash2)
    \/ \E branch \in {UNDEFINED, "feature"}, limit \in {Undef, Num(1)} : Log("a", branch, limit)
    \/ Status("a")
    \/ Tick

SpecFrame == Init /\ [][NextFrame]_vars

\* C40: diff, log, getState and status never add a commit or change any
\* branch ref, HEAD or current_branch, and checkout never adds a commit or
\* changes where any branch ref points.
C40_ReadsHaveNoEffect ==
    [][/\ ( \/ \E hash \in FirstHashInputs : GetState("a", hash)
            \/ \E hash1, hash2 \in FirstHashInputs : Diff("a", hash1, hash2)
            \/ \E branch \in {UNDEFINED, "feature"}, limit \in {Undef, Num(1)} :
                  Log("a", branch, limit)
            \/ Status("a") )
          => /\ commits' = commits
             /\ branches' = branches
             /\ status' = status
             /\ detachedHash' = detachedHash
       /\ (\E target \in {"main", "feature"} \cup FirstHashInputs : Checkout("a", target))
          => /\ commits' = commits
             /\ branches' = branches]_vars

\* With two branches, a commit was checked out by its hash and the history
\* was then read from the detached HEAD.
C40_Witness ==
    /\ pend["a"].op = "log"
    /\ Len(pend["a"].state.arr) = 1
    /\ status.current_branch = NULL
    /\ status.branches = {"main", "feature"}
====
